---- MODULE Spec2Model ----
(***************************************************************************)
(* Listing filter, entity resolver and filtered resolver of tcg-research.  *)
(* Texts are TLA+ strings handled character by character; the regular      *)
(* expressions of the source are kept as syntax trees and matched by a     *)
(* backtracking matcher with the priorities of Python's re module.         *)
(***************************************************************************)
EXTENDS Integers, Sequences, FiniteSets, TLC

(* ------------------------------------------------------------------ *)
(* Characters and str methods                                          *)
(* ------------------------------------------------------------------ *)
UpperLetters == "ABCDEFGHIJKLMNOPQRSTUVWXYZ"
LowerLetters == "abcdefghijklmnopqrstuvwxyz"
DigitChars == "0123456789"

\* s[a-1:b] of Python: the characters at positions a..b that exist
Mid(s, a, b) ==
  IF a > b \/ a > Len(s) \/ b < 1 THEN ""
  ELSE SubSeq(s, IF a < 1 THEN 1 ELSE a, IF b > Len(s) THEN Len(s) ELSE b)

At(s, i) == Mid(s, i, i)

CharSet(s) == {At(s, i) : i \in 1..Len(s)}

UpperSet == CharSet(UpperLetters)
LowerSet == CharSet(LowerLetters)
DigitSet == CharSet(DigitChars)
AlphaSet == UpperSet \cup LowerSet
\* \s of re, restricted to the blank
SpaceSet == {" "}

LowerTab == [c \in UpperSet |-> At(LowerLetters, CHOOSE i \in 1..26 : At(UpperLetters, i) = c)]
UpperTab == [c \in LowerSet |-> At(UpperLetters, CHOOSE i \in 1..26 : At(LowerLetters, i) = c)]

LowerCh(c) == IF c \in UpperSet THEN LowerTab[c] ELSE c
UpperCh(c) == IF c \in LowerSet THEN UpperTab[c] ELSE c

RECURSIVE ConcatRange(_, _, _)
\* the concatenation of the strings (or sequences) parts[a..b], by halves
ConcatRange(parts, a, b) ==
  IF a = b THEN parts[a]
  ELSE LET mid == (a + b) \div 2
       IN ConcatRange(parts, a, mid) \o ConcatRange(parts, mid + 1, b)

\* "".join(chars)
Concat(chars) == IF Len(chars) = 0 THEN "" ELSE ConcatRange(chars, 1, Len(chars))

\* str.lower
Lower(s) == Concat([i \in 1..Len(s) |-> LowerCh(At(s, i))])
\* str.upper
Upper(s) == Concat([i \in 1..Len(s) |-> UpperCh(At(s, i))])

\* str.title: a letter is upper-cased unless it follows a letter
Title(s) ==
  Concat([i \in 1..Len(s) |->
            IF i > 1 /\ At(s, i - 1) \in AlphaSet THEN LowerCh(At(s, i)) ELSE UpperCh(At(s, i))])

SetMin(S) == CHOOSE m \in S : \A n \in S : m <= n

\* str.strip
Strip(s) ==
  LET inked == {i \in 1..Len(s) : At(s, i) \notin SpaceSet}
  IN IF inked = {} THEN ""
     ELSE Mid(s, SetMin(inked), CHOOSE m \in inked : \A n \in inked : m >= n)

\* the elements of a set of numbers in ascending order
Sorted(S) == [k \in 1..Cardinality(S) |-> CHOOSE m \in S : Cardinality({n \in S : n < m}) = k - 1]

\* str.split() without argument
Split(s) ==
  LET starts == {i \in 1..Len(s) : At(s, i) \notin SpaceSet /\ (i = 1 \/ At(s, i - 1) \in SpaceSet)}
      stops == {i \in 1..Len(s) : At(s, i) \notin SpaceSet /\ (i = Len(s) \/ At(s, i + 1) \in SpaceSet)}
      first == Sorted(starts)
      last == Sorted(stops)
  IN [k \in 1..Len(first) |-> Mid(s, first[k], last[k])]

\* str.replace for a one-character pattern
ReplaceCh(s, a, b) == Concat([i \in 1..Len(s) |-> IF At(s, i) = a THEN b ELSE At(s, i)])

\* sep.join(parts)
Join(sep, parts) ==
  Concat([k \in 1..Len(parts) |-> IF k = 1 THEN parts[k] ELSE sep \o parts[k]])

\* the "in" operator on two strings
Contains(hay, needle) ==
  \/ needle = ""
  \/ \E i \in 1..(Len(hay) - Len(needle) + 1) : Mid(hay, i, i + Len(needle) - 1) = needle

(* ------------------------------------------------------------------ *)
(* Regular expressions                                                 *)
(* ------------------------------------------------------------------ *)
Inf == 1000

Lit(s) == [k |-> "lit", s |-> s]
\* a character class repeated lo..hi times, greedy or lazy
Cls(cs, lo, hi, greedy) == [k |-> "cls", cs |-> cs, neg |-> FALSE, lo |-> lo, hi |-> hi, g |-> greedy]
\* "." repeated lo..hi times
Dot(lo, hi, greedy) == [k |-> "cls", cs |-> {}, neg |-> TRUE, lo |-> lo, hi |-> hi, g |-> greedy]
Cat(rs) == [k |-> "seq", rs |-> rs]
Alt(rs) == [k |-> "alt", rs |-> rs]
\* a sub-expression repeated lo..hi times
Rep(r, lo, hi, greedy) == [k |-> "rep", r |-> r, lo |-> lo, hi |-> hi, g |-> greedy]
\* capturing group 1
Grp(r) == [k |-> "grp", r |-> r]
WB == [k |-> "wb"]
BOL == [k |-> "bol"]
EOL == [k |-> "eol"]

WS0 == Cls(SpaceSet, 0, Inf, TRUE)
WS1 == Cls(SpaceSet, 1, Inf, TRUE)
D1 == Cls(DigitSet, 1, Inf, TRUE)
Opt(c) == Cls({c}, 0, 1, TRUE)

\* whether position i of t holds a \w character (ASCII)
IsWordAt(t, i) == i >= 1 /\ i <= Len(t) /\ At(t, i) \in AlphaSet \cup DigitSet \cup {"_"}

\* number of consecutive characters from position i that are in the class, at most max
RunLen(re, t, i, max) ==
  LET stop == SetMin({j \in i..Len(t) : (At(t, j) \in re.cs) = re.neg} \cup {Len(t) + 1})
  IN IF stop - i > max THEN max ELSE stop - i

\* the concatenation of a sequence of sequences
Flatten(ss) == IF Len(ss) = 0 THEN <<>> ELSE ConcatRange(ss, 1, Len(ss))

\* A match is <<end, gs, ge>>: the position after the match and the span of
\* group 1 (gs = 0 when the group did not take part).  M gives every way to
\* match re at position i, in the order the backtracking matcher tries them.
RECURSIVE M(_, _, _)
RECURSIVE MSeq(_, _, _, _, _, _)
RECURSIVE MRep(_, _, _, _, _, _)

M(re, t, i) ==
  CASE re.k = "lit" ->
         IF i + Len(re.s) - 1 <= Len(t) /\ Mid(t, i, i + Len(re.s) - 1) = re.s THEN <<<<i + Len(re.s), 0, 0>>>> ELSE <<>>
    [] re.k = "cls" ->
         \* n characters are in the class: the greedy class tries the ends
         \* i + n down to i + lo, the lazy one i + lo up to i + n
         LET Ends(n) == [j \in 1..(n - re.lo + 1) |->
                           <<IF re.g THEN i + n - j + 1 ELSE i + re.lo + j - 1, 0, 0>>]
         IN Ends(RunLen(re, t, i, re.hi))
    [] re.k = "seq" -> MSeq(re.rs, 1, t, i, 0, 0)
    [] re.k = "alt" -> Flatten([j \in 1..Len(re.rs) |-> M(re.rs[j], t, i)])
    [] re.k = "rep" -> MRep(re, 0, t, i, 0, 0)
    [] re.k = "grp" ->
         LET ms == M(re.r, t, i) IN [j \in 1..Len(ms) |-> <<ms[j][1], i, ms[j][1]>>]
    [] re.k = "wb" -> IF IsWordAt(t, i - 1) # IsWordAt(t, i) THEN <<<<i, 0, 0>>>> ELSE <<>>
    [] re.k = "bol" -> IF i = 1 THEN <<<<i, 0, 0>>>> ELSE <<>>
    [] re.k = "eol" -> IF i = Len(t) + 1 THEN <<<<i, 0, 0>>>> ELSE <<>>

\* the sequence rs from element idx on, at position i with group span gs, ge
MSeq(rs, idx, t, i, gs, ge) ==
  IF idx > Len(rs) THEN <<<<i, gs, ge>>>>
  ELSE LET ms == M(rs[idx], t, i)
           carried == [j \in 1..Len(ms) |->
                         IF ms[j][2] = 0 THEN <<ms[j][1], gs, ge>> ELSE ms[j]]
       IN Flatten([j \in 1..Len(carried) |->
                     MSeq(rs, idx + 1, t, carried[j][1], carried[j][2], carried[j][3])])

\* the repetition re after cnt iterations, at position i
MRep(re, cnt, t, i, gs, ge) ==
  LET stop == IF cnt >= re.lo THEN <<<<i, gs, ge>>>> ELSE <<>>
      ms == IF cnt >= re.hi THEN <<>> ELSE M(re.r, t, i)
      \* an iteration that consumes nothing ends the repetition
      adv == SelectSeq(ms, LAMBDA m : m[1] > i)
      carried == [j \in 1..Len(adv) |->
                    IF adv[j][2] = 0 THEN <<adv[j][1], gs, ge>> ELSE adv[j]]
      more == Flatten([j \in 1..Len(carried) |->
                         MRep(re, cnt + 1, t, carried[j][1], carried[j][2], carried[j][3])])
  IN IF re.g THEN more \o stop ELSE stop \o more

\* the match object of re.search: the leftmost start with a match and the
\* first match the matcher finds there, where ms[j] are the matches at j
Leftmost(ms) ==
  LET starts == {j \in DOMAIN ms : ms[j] # <<>>}
      MatchAt(st, m) == [found |-> TRUE, s |-> st, e |-> m[1], gs |-> m[2], ge |-> m[3]]
  IN IF starts = {} THEN [found |-> FALSE, s |-> 0, e |-> 0, gs |-> 0, ge |-> 0]
     ELSE MatchAt(SetMin(starts), ms[SetMin(starts)][1])

\* re.search from position i
SearchFrom(re, t, i) == Leftmost([j \in i..(Len(t) + 1) |-> M(re, t, j)])

\* re.search(pattern, text)
Search(re, t) == SearchFrom(re, t, 1)
\* bool(re.search(pattern, text))
Found(re, t) == Search(re, t).found
\* match.group()
Group0(m, t) == Mid(t, m.s, m.e - 1)
\* match.group(1)
Group1(m, t) == Mid(t, m.gs, m.ge - 1)

RECURSIVE SubFrom(_, _, _, _, _)
RECURSIVE SubMatch(_, _, _, _, _, _)
\* SubFrom when the search from position i gave m
SubMatch(re, repl, t, tm, i, m) ==
  IF ~m.found THEN Mid(t, i, Len(t))
  ELSE Mid(t, i, m.s - 1) \o repl \o
       (IF m.e > m.s THEN SubFrom(re, repl, t, tm, m.e)
        ELSE IF m.s > Len(t) THEN ""
        ELSE At(t, m.s) \o SubFrom(re, repl, t, tm, m.s + 1))

\* re.sub(pattern, repl, text): matches are found in tm (the text as the
\* pattern sees it) and replaced in t, from position i on
SubFrom(re, repl, t, tm, i) == SubMatch(re, repl, t, tm, i, SearchFrom(re, tm, i))

\* re.sub(pattern, repl, text)
Sub(re, repl, t) == SubFrom(re, repl, t, t, 1)

RECURSIVE LowerRe(_)
\* the pattern as re.IGNORECASE sees it on lower-cased text
LowerRe(re) ==
  CASE re.k = "lit" -> Lit(Lower(re.s))
    [] re.k = "cls" -> [re EXCEPT !.cs = {LowerCh(c) : c \in re.cs}]
    [] re.k = "seq" -> Cat([j \in 1..Len(re.rs) |-> LowerRe(re.rs[j])])
    [] re.k = "alt" -> Alt([j \in 1..Len(re.rs) |-> LowerRe(re.rs[j])])
    [] re.k = "rep" -> [re EXCEPT !.r = LowerRe(re.r)]
    [] re.k = "grp" -> Grp(LowerRe(re.r))
    [] OTHER -> re

\* re.search(pattern, text, re.IGNORECASE)
SearchI(re, t) == Search(LowerRe(re), Lower(t))
\* bool(re.search(pattern, text, re.IGNORECASE))
FoundI(re, t) == SearchI(re, t).found
\* re.sub(pattern, repl, text, flags=re.IGNORECASE)
SubI(re, repl, t) == SubFrom(LowerRe(re), repl, t, Lower(t), 1)

(* ------------------------------------------------------------------ *)
(* Python floats (IEEE-754 binary64, round to nearest even)            *)
(* ------------------------------------------------------------------ *)
\* Natural numbers of any size: little-endian sequences of limbs below Base,
\* without leading zero limbs (TLC's own integers have 32 bits).
Base == 32768
LimbBits == 15

RECURSIVE BNorm(_)
BNorm(a) == IF a # <<>> /\ a[Len(a)] = 0 THEN BNorm(SubSeq(a, 1, Len(a) - 1)) ELSE a

BLimb(a, i) == IF i <= Len(a) THEN a[i] ELSE 0

\* -1, 0 or 1 as a < b, a = b or a > b
BCmp(a, b) ==
  LET RECURSIVE CmpAt(_)
      CmpAt(i) ==
        IF i = 0 THEN 0
        ELSE IF BLimb(a, i) < BLimb(b, i) THEN -1
        ELSE IF BLimb(a, i) > BLimb(b, i) THEN 1
        ELSE CmpAt(i - 1)
  IN CmpAt(IF Len(a) > Len(b) THEN Len(a) ELSE Len(b))

BAdd(a, b) ==
  LET RECURSIVE AddAt(_, _)
      AddAt(i, carry) ==
        IF i > Len(a) /\ i > Len(b) THEN (IF carry = 0 THEN <<>> ELSE <<carry>>)
        ELSE <<(BLimb(a, i) + BLimb(b, i) + carry) % Base>>
             \o AddAt(i + 1, (BLimb(a, i) + BLimb(b, i) + carry) \div Base)
  IN AddAt(1, 0)

\* a - b for a >= b
BSub(a, b) ==
  LET RECURSIVE SubAt(_, _)
      SubAt(i, borrow) ==
        IF i > Len(a) THEN <<>>
        ELSE <<(BLimb(a, i) - BLimb(b, i) - borrow) % Base>>
             \o SubAt(i + 1, IF BLimb(a, i) - BLimb(b, i) - borrow < 0 THEN 1 ELSE 0)
  IN BNorm(SubAt(1, 0))

RECURSIVE BMulLimb(_, _, _, _)
BMulLimb(a, d, i, carry) ==
  IF i > Len(a) THEN (IF carry = 0 THEN <<>> ELSE <<carry>>)
  ELSE LET p == a[i] * d + carry
       IN <<p % Base>> \o BMulLimb(a, d, i + 1, p \div Base)

BMul(a, b) ==
  LET RECURSIVE MulAt(_)
      MulAt(j) ==
        IF j > Len(b) THEN <<>>
        ELSE BAdd(BMulLimb(a, b[j], 1, 0), <<0>> \o MulAt(j + 1))
  IN BNorm(MulAt(1))

RECURSIVE Pow2(_)
Pow2(n) == IF n = 0 THEN 1 ELSE 2 * Pow2(n - 1)

RECURSIVE BShl(_, _)
\* a * 2^n
BShl(a, n) ==
  IF a = <<>> THEN <<>>
  ELSE IF n >= LimbBits THEN <<0>> \o BShl(a, n - LimbBits)
  ELSE BNorm(BMulLimb(a, Pow2(n), 1, 0))

RECURSIVE BDivLimb(_, _, _, _)
\* the limbs i..1 of floor(a / d) for a limb d, from the most significant one
BDivLimb(a, d, i, rem) ==
  IF i = 0 THEN <<>>
  ELSE LET cur == rem * Base + a[i]
       IN BDivLimb(a, d, i - 1, cur % d) \o <<cur \div d>>

RECURSIVE BModLimb(_, _, _, _)
BModLimb(a, d, i, rem) ==
  IF i = 0 THEN rem ELSE BModLimb(a, d, i - 1, (rem * Base + a[i]) % d)

RECURSIVE BShr(_, _)
\* floor(a / 2^n)
BShr(a, n) ==
  IF a = <<>> THEN <<>>
  ELSE IF n >= LimbBits THEN BShr(Tail(a), n - LimbBits)
  ELSE IF n = 0 THEN a
  ELSE BNorm(BDivLimb(a, Pow2(n), Len(a), 0))

\* the number of bits of a
BBitLen(a) ==
  LET RECURSIVE BitLenInt(_)
      BitLenInt(n) == IF n = 0 THEN 0 ELSE 1 + BitLenInt(n \div 2)
  IN IF a = <<>> THEN 0 ELSE LimbBits * (Len(a) - 1) + BitLenInt(a[Len(a)])

RECURSIVE BFromInt(_)
BFromInt(n) == IF n = 0 THEN <<>> ELSE <<n % Base>> \o BFromInt(n \div Base)

\* A float is [s, m, e] with value (-1)^s * m * 2^e, where m is zero (and s, e
\* are 0) or has exactly MantBits bits.
MantBits == 53
FZero == [s |-> 0, m |-> <<>>, e |-> 0]

\* FRound for a quotient q1 of at least MantBits bits: a carry out of the
\* rounding makes it one bit longer
FRoundCarry(s, q1, e) ==
  IF BBitLen(q1) > MantBits THEN [s |-> s, m |-> BShr(q1, 1), e |-> e + 1]
  ELSE [s |-> s, m |-> q1, e |-> e]

\* FRound for an m of MantBits + sh bits, sh > 0, with qt = floor(m / 2^sh): the
\* remainder decides, and half of 2^sh rounds to the even quotient
FRoundCut(s, m, e, sh, qt) ==
  FRoundCarry(s,
              IF BCmp(BSub(m, BShl(qt, sh)), BShl(<<1>>, sh - 1)) + (qt[1] % 2) >= 1
              THEN BAdd(qt, <<1>>) ELSE qt,
              e + sh)

\* FRound for an m of len bits
FRoundBits(s, m, e, len) ==
  IF len = 0 THEN FZero
  ELSE IF len <= MantBits THEN [s |-> s, m |-> BShl(m, MantBits - len), e |-> e - (MantBits - len)]
  ELSE FRoundCut(s, m, e, len - MantBits, BShr(m, len - MantBits))

\* the float nearest to (-1)^s * m * 2^e, ties to the even mantissa
FRound(s, m, e) == FRoundBits(s, m, e, BBitLen(m))

\* float addition of sa * ma * 2^e and sb * mb * 2^e, where c is BCmp(ma, mb)
FAddAligned(sa, sb, ma, mb, e, c) ==
  FRound(IF sa = sb \/ c = 1 THEN sa ELSE sb,
         IF sa = sb THEN BAdd(ma, mb) ELSE IF c = 1 THEN BSub(ma, mb) ELSE BSub(mb, ma),
         e)

Min(a, b) == IF a < b THEN a ELSE b
Max(a, b) == IF a > b THEN a ELSE b

\* float addition
FAdd(a, b) ==
  IF a.m = <<>> THEN b
  ELSE IF b.m = <<>> THEN a
  ELSE FAddAligned(a.s, b.s, BShl(a.m, a.e - Min(a.e, b.e)), BShl(b.m, b.e - Min(a.e, b.e)),
                   Min(a.e, b.e),
                   BCmp(BShl(a.m, a.e - Min(a.e, b.e)), BShl(b.m, b.e - Min(a.e, b.e))))

FNeg(a) == IF a.m = <<>> THEN a ELSE [a EXCEPT !.s = 1 - a.s]
\* float multiplication
FMul(a, b) == IF a.m = <<>> \/ b.m = <<>> THEN FZero ELSE FRound((a.s + b.s) % 2, BMul(a.m, b.m), a.e + b.e)

\* -1, 0 or 1 as a < b, a = b or a > b: the sign of the float a - b
FCmp(a, b) ==
  LET Sign(d) == IF d.m = <<>> THEN 0 ELSE IF d.s = 1 THEN -1 ELSE 1
  IN Sign(FAdd(a, FNeg(b)))

FGe(a, b) == FCmp(a, b) >= 0
FLt(a, b) == FCmp(a, b) < 0
\* min(a, b) and max(a, b) of Python: the first argument unless the second is smaller (larger)
FMin(a, b) == IF FLt(b, a) THEN b ELSE a
FMax(a, b) == IF FLt(a, b) THEN b ELSE a

GuardBits == 60
\* the float a decimal literal num/den denotes (0 < den < Base): the quotient is
\* taken to GuardBits binary places and a last bit records a non-zero remainder
Dec(num, den) ==
  LET n == BShl(BFromInt(num), GuardBits)
      qt == BNorm(BDivLimb(n, den, Len(n), 0))
      sticky == IF BModLimb(n, den, Len(n), 0) = 0 THEN <<>> ELSE <<1>>
  IN IF num = 0 THEN FZero ELSE FRound(0, BAdd(BShl(qt, 1), sticky), 0 - GuardBits - 1)

(* ------------------------------------------------------------------ *)
(* Pattern tables of PokemonCardFilter                                 *)
(* ------------------------------------------------------------------ *)
\* immediate_exclusions: patterns that exclude a listing at once
immediate_exclusions == <<
  Cat(<<WB, Alt(<<Cat(<<Lit("tcg"), WS0, Lit("online")>>), Lit("ptcgo"), Lit("tcgo"), Cat(<<Lit("digital"), WS0, Lit("code")>>), Cat(<<Lit("code"), WS0, Lit("card")>>), Cat(<<Lit("online"), WS0, Lit("code")>>)>>), WB>>),
  Cat(<<WB, Alt(<<Cat(<<Lit("unused"), WS0, Lit("code")>>), Cat(<<Lit("redeem"), WS0, Lit("code")>>), Cat(<<Lit("download"), WS0, Lit("code")>>)>>), WB>>),
  Cat(<<WB, Alt(<<Cat(<<Lit("sleeve"), Opt("s")>>), Cat(<<Lit("deck"), WS0, Lit("box")>>), Lit("binder"), Lit("playmat"), Lit("dice"), Lit("coin"), Lit("token")>>), WB>>),
  Cat(<<WB, Alt(<<Lit("case"), Lit("storage"), Lit("organizer"), Lit("folder"), Lit("album")>>), WB>>),
  Cat(<<WB, Alt(<<Lit("figure"), Lit("plush"), Lit("toy"), Lit("statue"), Lit("model")>>), WB>>),
  Cat(<<WB, Alt(<<Cat(<<Lit("random"), WS0, Alt(<<Lit("card"), Lit("lot")>>)>>), Cat(<<Lit("mystery"), WS0, Alt(<<Lit("box"), Lit("pack")>>)>>), Cat(<<Lit("grab"), WS0, Lit("bag")>>)>>), WB>>),
  Cat(<<WB, Alt(<<Cat(<<Lit("choose"), WS0, Lit("your")>>), Cat(<<Lit("pick"), WS0, Lit("your")>>), Cat(<<Lit("you"), WS0, Lit("choose")>>), Cat(<<Lit("complete"), WS0, Lit("your"), WS0, Lit("set")>>)>>), WB>>),
  Cat(<<WB, Alt(<<Cat(<<Lit("lot"), WS0, Lit("of"), WS0, D1>>), Cat(<<Lit("bulk"), WS0, Lit("lot")>>), Cat(<<D1, WS0, Lit("card"), WS0, Lit("lot")>>)>>), WB>>),
  Cat(<<WB, Alt(<<Lit("fake"), Lit("proxy"), Lit("custom"), Cat(<<Lit("fan"), WS0, Lit("made")>>), Lit("reproduction"), Lit("reprint")>>), WB>>),
  Cat(<<WB, Alt(<<Cat(<<Lit("not"), WS0, Lit("official")>>), Lit("unofficial"), Cat(<<Lit("knock"), WS0, Lit("off")>>)>>), WB>>),
  Cat(<<WB, Alt(<<Cat(<<Lit("damaged"), WS0, Lit("beyond")>>), Cat(<<Lit("water"), WS0, Lit("damage")>>), Cat(<<Lit("fire"), WS0, Lit("damage")>>)>>), WB>>),
  Cat(<<WB, Alt(<<Lit("pieces"), Lit("parts"), Lit("torn"), Cat(<<Lit("ripped"), WS0, Lit("up")>>)>>), WB>>),
  Cat(<<WB, Alt(<<Cat(<<Lit("read"), WS0, Lit("description")>>), Cat(<<Lit("see"), WS0, Lit("pictures")>>), Cat(<<Lit("as"), WS0, Lit("is")>>), Cat(<<Lit("no"), WS0, Lit("returns")>>)>>), WB>>),
  Cat(<<WB, Alt(<<Lit("broken"), Lit("cracked"), Cat(<<Lit("scratched"), WS0, Lit("up")>>)>>), WB>>)
>>

\* modern_sets: set code and its names, in the order of the dict
modern_sets == <<
  [code |-> "PAL", names |-> <<"Paldea Evolved", "PAL">>],
  [code |-> "OBF", names |-> <<"Obsidian Flames", "OBF">>],
  [code |-> "MEW", names |-> <<"151", "MEW", "Pokemon 151">>],
  [code |-> "PAR", names |-> <<"Paradox Rift", "PAR">>],
  [code |-> "SVI", names |-> <<"Scarlet Violet Base", "SVI", "Scarlet & Violet">>],
  [code |-> "CRZ", names |-> <<"Crown Zenith", "CRZ">>],
  [code |-> "SIT", names |-> <<"Silver Tempest", "SIT">>],
  [code |-> "LOR", names |-> <<"Lost Origin", "LOR">>],
  [code |-> "PGO", names |-> <<"Pokemon GO", "PGO">>],
  [code |-> "ASR", names |-> <<"Astral Radiance", "ASR">>],
  [code |-> "BRS", names |-> <<"Brilliant Stars", "BRS">>],
  [code |-> "FST", names |-> <<"Fusion Strike", "FST">>],
  [code |-> "CEL", names |-> <<"Celebrations", "CEL">>],
  [code |-> "EVS", names |-> <<"Evolving Skies", "EVS">>],
  [code |-> "CRE", names |-> <<"Chilling Reign", "CRE">>],
  [code |-> "BST", names |-> <<"Battle Styles", "BST">>],
  [code |-> "SHF", names |-> <<"Shining Fates", "SHF">>],
  [code |-> "VIV", names |-> <<"Vivid Voltage", "VIV">>],
  [code |-> "CPA", names |-> <<"Champions Path", "CPA", "CP">>],
  [code |-> "DAA", names |-> <<"Darkness Ablaze", "DAA">>],
  [code |-> "RCL", names |-> <<"Rebel Clash", "RCL">>],
  [code |-> "SSH", names |-> <<"Sword Shield Base", "SSH", "Sword & Shield">>],
  [code |-> "BASE", names |-> <<"Base Set", "Base", "WOTC">>],
  [code |-> "JUN", names |-> <<"Jungle", "JUN">>],
  [code |-> "FOS", names |-> <<"Fossil", "FOS">>],
  [code |-> "B2", names |-> <<"Base Set 2", "Base 2">>],
  [code |-> "TR", names |-> <<"Team Rocket", "TR">>],
  [code |-> "GYM1", names |-> <<"Gym Heroes", "GYM1">>],
  [code |-> "GYM2", names |-> <<"Gym Challenge", "GYM2">>],
  [code |-> "NEO1", names |-> <<"Neo Genesis", "NEO1">>],
  [code |-> "NEO2", names |-> <<"Neo Discovery", "NEO2">>],
  [code |-> "NEO3", names |-> <<"Neo Revelation", "NEO3">>],
  [code |-> "NEO4", names |-> <<"Neo Destiny", "NEO4">>]
>>

condition_map == <<
  [condition |-> "mint", patterns |-> <<"mint", "mt", "gem mint", "perfect">>],
  [condition |-> "near_mint", patterns |-> <<"near mint", "nm", "near-mint", "excellent">>],
  [condition |-> "lightly_played", patterns |-> <<"lightly played", "lp", "light play", "very good">>],
  [condition |-> "moderately_played", patterns |-> <<"moderately played", "mp", "played", "good">>],
  [condition |-> "heavily_played", patterns |-> <<"heavily played", "hp", "poor">>],
  [condition |-> "damaged", patterns |-> <<"damaged", "dmg", "fair">>]
>>

grading_patterns == <<
  Cat(<<WB, Cat(<<Lit("psa"), WS0, Alt(<<Lit("10"), Lit("9"), Lit("8"), Lit("7"), Lit("6"), Lit("5"), Lit("4"), Lit("3"), Lit("2"), Lit("1")>>)>>), WB>>),
  Cat(<<WB, Alt(<<Lit("bgs"), Lit("beckett")>>), WS0, Alt(<<Lit("10"), Lit("9.5"), Lit("9"), Lit("8.5"), Lit("8"), Lit("7.5"), Lit("7"), Lit("6.5"), Lit("6")>>), WB>>),
  Cat(<<WB, Lit("cgc"), WS0, Alt(<<Lit("10"), Lit("9.5"), Lit("9"), Lit("8.5"), Lit("8"), Lit("7.5"), Lit("7"), Lit("6.5"), Lit("6")>>), WB>>)
>>

quality_positive == <<
  [category |-> "professional_photos", patterns |-> <<
      Cat(<<WB, Lit("professional"), WS0, Lit("photo")>>),
      Cat(<<WB, Lit("high"), WS0, Lit("res")>>),
      Cat(<<WB, Lit("clear"), WS0, Lit("image")>>),
      Cat(<<WB, Lit("multiple"), WS0, Lit("angle")>>),
      Cat(<<WB, Lit("front"), WS0, Lit("and"), WS0, Lit("back")>>)>>],
  [category |-> "detailed_condition", patterns |-> <<
      Cat(<<WB, Lit("centering")>>),
      Cat(<<WB, Lit("corner"), Opt("s")>>),
      Cat(<<WB, Lit("edge"), Opt("s")>>),
      Cat(<<WB, Lit("surface")>>),
      Cat(<<WB, Lit("no"), WS0, Lit("crease"), Opt("s")>>),
      Cat(<<WB, Lit("no"), WS0, Lit("bend"), Opt("s")>>),
      Cat(<<WB, Lit("no"), WS0, Lit("scratche"), Opt("s")>>)>>],
  [category |-> "seller_quality", patterns |-> <<
      Cat(<<WB, Lit("top"), WS0, Lit("rated")>>),
      Cat(<<WB, Lit("fast"), WS0, Lit("shipping")>>),
      Cat(<<WB, Lit("free"), WS0, Lit("shipping")>>),
      Cat(<<WB, Lit("tracked"), WS0, Lit("shipping")>>),
      Cat(<<WB, Lit("insured")>>)>>],
  [category |-> "authenticity", patterns |-> <<
      Cat(<<WB, Lit("official")>>),
      Cat(<<WB, Lit("original")>>),
      Cat(<<WB, Lit("authentic")>>),
      Cat(<<WB, Lit("genuine")>>),
      Cat(<<WB, Lit("not"), WS0, Lit("proxy")>>),
      Cat(<<WB, Lit("not"), WS0, Lit("fake")>>)>>]
>>

quality_negative == <<
  [category |-> "poor_description", patterns |-> <<
      Cat(<<WB, Lit("as"), WS0, Lit("is")>>),
      Cat(<<WB, Lit("no"), WS0, Lit("return"), Opt("s")>>),
      Cat(<<WB, Lit("sold"), WS0, Lit("as"), WS0, Lit("seen")>>),
      Cat(<<WB, Lit("read"), WS0, Lit("description")>>),
      Cat(<<WB, Lit("check"), WS0, Lit("photo")>>)>>],
  [category |-> "condition_issues", patterns |-> <<
      Cat(<<WB, Lit("scuff"), Opt("s")>>),
      Cat(<<WB, Lit("scratche"), Opt("s")>>),
      Cat(<<WB, Lit("dent"), Opt("s")>>),
      Cat(<<WB, Lit("bend"), Opt("s")>>),
      Cat(<<WB, Lit("wear")>>),
      Cat(<<WB, Lit("used")>>),
      Cat(<<WB, Lit("damage")>>)>>],
  [category |-> "unclear_listing", patterns |-> <<
      Cat(<<WB, Lit("?"), Cls({"?"}, 1, Inf, TRUE)>>),
      Cat(<<WB, Lit("might"), WS0, Lit("be")>>),
      Cat(<<WB, Lit("not"), WS0, Lit("sure")>>),
      Cat(<<WB, Lit("think"), WS0, Lit("it"), WS0, Lit("is")>>),
      Cat(<<WB, Lit("believe"), WS0, Lit("it")>>)>>]
>>

sealed_patterns == <<
  Cat(<<WB, Alt(<<Cat(<<Lit("booster"), WS0, Alt(<<Lit("pack"), Lit("box")>>)>>), Cat(<<Lit("elite"), WS0, Lit("trainer")>>), Cat(<<Lit("theme"), WS0, Lit("deck")>>)>>), WB>>),
  Cat(<<WB, Alt(<<Lit("tin"), Cat(<<Lit("collection"), WS0, Lit("box")>>), Cat(<<Lit("starter"), WS0, Lit("deck")>>)>>), WB>>),
  Cat(<<WB, Alt(<<Lit("sealed"), Lit("unopened"), Cat(<<Lit("factory"), WS0, Lit("sealed")>>)>>), WB>>)
>>

bulk_patterns == <<
  Cat(<<WB, Alt(<<Cat(<<Lit("lot"), WS0, Lit("of")>>), Cat(<<D1, WS0, Lit("card"), Opt("s")>>), Lit("bulk"), Lit("random")>>), WB>>),
  Cat(<<WB, Alt(<<Cat(<<Lit("mixed"), WS0, Lit("lot")>>), Cat(<<Lit("card"), WS0, Lit("lot")>>)>>), WB>>)
>>

accessory_patterns == <<
  Cat(<<WB, Alt(<<Lit("sleeve"), Lit("protector"), Lit("binder"), Lit("case"), Lit("box")>>), WB>>),
  Cat(<<WB, Alt(<<Lit("playmat"), Lit("dice"), Lit("coin"), Lit("counter")>>), WB>>)
>>

custom_patterns == <<
  Cat(<<WB, Alt(<<Lit("custom"), Lit("proxy"), Cat(<<Lit("fan"), WS0, Lit("made")>>), Lit("ooak")>>), WB>>),
  Cat(<<WB, Alt(<<Lit("altered"), Lit("painted"), Cat(<<Lit("custom"), WS0, Lit("art")>>)>>), WB>>)
>>

single_patterns == <<
  Cat(<<WB, Alt(<<Cat(<<Lit("pokemon"), WS0, Lit("card")>>), Cat(<<Lit("trading"), WS0, Lit("card")>>), Cat(<<Lit("single"), WS0, Lit("card")>>)>>), WB>>),
  Cat(<<WB, Alt(<<Lit("holo"), Lit("rare"), Lit("common"), Lit("uncommon")>>), WB>>),
  Cat(<<WB, Alt(<<Lit("ex"), Lit("gx"), Lit("v"), Lit("vmax"), Lit("vstar")>>), WB>>)
>>

digital_pattern == Cat(<<WB, Alt(<<Lit("code"), Cat(<<Lit("tcg"), WS0, Lit("online")>>), Lit("digital")>>), WB>>)
number_patterns == <<
  Cat(<<Lit("#"), Grp(D1)>>),
  Cat(<<Grp(D1), Lit("/"), D1>>),
  Cat(<<Lit("no"), Opt("."), WS0, Grp(D1)>>),
  Cat(<<WB, Grp(Cls(DigitSet, 1, 3, TRUE)), WB>>)
>>

\* set_pattern: \b(?:name|name|...)\b, compiled with re.IGNORECASE
set_pattern ==
  LET names == Flatten([i \in 1..Len(modern_sets) |-> modern_sets[i].names])
  IN LowerRe(Cat(<<WB, Alt([j \in 1..Len(names) |-> Lit(names[j])]), WB>>))

\* Python's None where a string is expected, and where a number is expected
None == "<None>"
NoneNum == -1

\* the prices are amounts in cents
Cents(dollars) == 100 * dollars

\* the doubles nearest to a table of fractions
DecAll(fractions) == [k \in DOMAIN fractions |-> Dec(fractions[k][1], fractions[k][2])]

\* the float literals of the source, each the double nearest to its decimal
FloatLiterals ==
  DecAll([F1 |-> <<1, 1>>,
          F0_1 |-> <<1, 10>>,
          F0_15 |-> <<15, 100>>,
          F0_2 |-> <<2, 10>>,
          F0_3 |-> <<3, 10>>,
          F0_4 |-> <<4, 10>>,
          F0_5 |-> <<5, 10>>,
          F0_6 |-> <<6, 10>>,
          F0_65 |-> <<65, 100>>,
          F0_7 |-> <<7, 10>>,
          F0_8 |-> <<8, 10>>])

(* ------------------------------------------------------------------ *)
(* PokemonCardFilter                                                   *)
(* ------------------------------------------------------------------ *)
min_confidence_score == FloatLiterals.F0_7

RECURSIVE ExclusionReasons(_, _)
\* the reasons of _check_immediate_exclusions: reason i stands for the
\* message "Matched exclusion pattern: <pattern i>"
ExclusionReasons(text, i) ==
  IF i > Len(immediate_exclusions) THEN <<>>
  ELSE (IF FoundI(immediate_exclusions[i], text) THEN <<i>> ELSE <<>>)
       \o ExclusionReasons(text, i + 1)

\* a check that finds no exclusion
_check_no_exclusions(text) == [is_junk |-> FALSE, reasons |-> <<>>]

_check_immediate_exclusions(text) ==
  LET Checked(reasons) == [is_junk |-> Len(reasons) > 0, reasons |-> reasons]
  IN Checked(ExclusionReasons(text, 1))

\* any(re.search(p, text) for p in patterns)
AnyFound(patterns, text) == \E j \in 1..Len(patterns) : Found(patterns[j], text)

\* a detection that tries the single-card vocabulary before the accessories
_detect_card_type_single_first(text) ==
  IF Found(digital_pattern, text) THEN "DIGITAL_CODE"
  ELSE IF AnyFound(sealed_patterns, text) THEN "SEALED_PRODUCT"
  ELSE IF AnyFound(bulk_patterns, text) THEN "BULK_LOT"
  ELSE IF AnyFound(single_patterns, text) THEN "SINGLE_CARD"
  ELSE IF AnyFound(accessory_patterns, text) THEN "ACCESSORY"
  ELSE IF AnyFound(custom_patterns, text) THEN "CUSTOM_PROXY"
  ELSE "UNKNOWN"

_detect_card_type(text) ==
  IF Found(digital_pattern, text) THEN "DIGITAL_CODE"
  ELSE IF AnyFound(sealed_patterns, text) THEN "SEALED_PRODUCT"
  ELSE IF AnyFound(bulk_patterns, text) THEN "BULK_LOT"
  ELSE IF AnyFound(accessory_patterns, text) THEN "ACCESSORY"
  ELSE IF AnyFound(custom_patterns, text) THEN "CUSTOM_PROXY"
  ELSE IF AnyFound(single_patterns, text) THEN "SINGLE_CARD"
  ELSE "UNKNOWN"

\* a set detection that reports the alias found in the title, not its code
_extract_set_alias(title) ==
  LET Searched(match) == IF match.found THEN Upper(Group0(match, title)) ELSE None
  IN Searched(Search(set_pattern, Lower(title)))

_extract_set_info(title) ==
  LET RECURSIVE SetCodeOf(_, _)
      \* the first code of modern_sets[i..] one of whose names contains found_set
      SetCodeOf(found_set, i) ==
        IF i > Len(modern_sets) THEN None
        ELSE IF \E j \in 1..Len(modern_sets[i].names) :
                  Contains(Lower(modern_sets[i].names[j]), found_set)
             THEN modern_sets[i].code
             ELSE SetCodeOf(found_set, i + 1)
      Searched(match) == IF match.found THEN SetCodeOf(Lower(Group0(match, title)), 1) ELSE None
  IN Searched(Search(set_pattern, Lower(title)))

_extract_card_number(title) ==
  LET RECURSIVE NumberFrom(_)
      Searched(match, i) == IF match.found THEN Group1(match, title) ELSE NumberFrom(i + 1)
      \* the loop over number_patterns[i..]
      NumberFrom(i) ==
        IF i > Len(number_patterns) THEN None
        ELSE Searched(SearchI(number_patterns[i], title), i)
  IN NumberFrom(1)

_extract_condition(text) ==
  LET RECURSIVE ConditionFrom(_)
      \* the loop over the items of condition_map from the i-th on
      ConditionFrom(i) ==
        IF i > Len(condition_map) THEN None
        ELSE IF \E j \in 1..Len(condition_map[i].patterns) :
                  FoundI(Cat(<<WB, Lit(condition_map[i].patterns[j]), WB>>), text)
             THEN condition_map[i].condition
             ELSE ConditionFrom(i + 1)
  IN ConditionFrom(1)

\* a conversion that rounds a half grade up
IntOfFloatRounded(s) ==
  LET RECURSIVE ParseInt(_, _)
      RECURSIVE IntPart(_)
      ParseInt(d, acc) ==
        IF d = "" THEN acc
        ELSE ParseInt(Tail(d), 10 * acc + ((CHOOSE i \in 1..10 : At(DigitChars, i) = Head(d)) - 1))
      IntPart(d) == IF d = "" \/ Head(d) = "." THEN "" ELSE Head(d) \o IntPart(Tail(d))
  IN ParseInt(IntPart(s), 0) + (IF Contains(s, ".5") THEN 1 ELSE 0)

\* int(float(s)) for a numeral s of the shape \d+(\.\d+)?
IntOfFloat(s) ==
  LET RECURSIVE ParseInt(_, _)
      RECURSIVE IntPart(_)
      \* int() of a string of digits (acc is the value of the digits read so far)
      ParseInt(d, acc) ==
        IF d = "" THEN acc
        ELSE ParseInt(Tail(d), 10 * acc + ((CHOOSE i \in 1..10 : At(DigitChars, i) = Head(d)) - 1))
      \* the digits of a decimal numeral before its point
      IntPart(d) == IF d = "" \/ Head(d) = "." THEN "" ELSE Head(d) \o IntPart(Tail(d))
  IN ParseInt(IntPart(s), 0)

grade_numeral == Grp(Cat(<<D1, Rep(Cat(<<Lit("."), D1>>), 0, 1, TRUE)>>))

_extract_grade(text) ==
  LET RECURSIVE GradeFrom(_)
      Graded(matched, grade_match, i) ==
        IF grade_match.found THEN IntOfFloat(Group1(grade_match, matched))
        ELSE GradeFrom(i + 1)
      Searched(match, i) ==
        IF match.found
        THEN Graded(Group0(match, text), Search(grade_numeral, Group0(match, text)), i)
        ELSE GradeFrom(i + 1)
      \* the loop over the items of grading_patterns from the i-th on
      GradeFrom(i) ==
        IF i > Len(grading_patterns) THEN NoneNum
        ELSE Searched(SearchI(grading_patterns[i], text), i)
  IN GradeFrom(1)

\* the patterns of every category of a quality table, in the order of the loops
AllPatterns(table) == Flatten([i \in 1..Len(table) |-> table[i].patterns])

RECURSIVE ScoreMatches(_, _, _, _, _)
\* score after the loop over patterns[i..], which adds delta for every pattern found
ScoreMatches(patterns, text, i, score, delta) ==
  IF i > Len(patterns) THEN score
  ELSE ScoreMatches(patterns, text, i + 1,
                    IF FoundI(patterns[i], text) THEN FAdd(score, delta) ELSE score, delta)

\* what the loops over the patterns, the price and the length of the text add
\* to the score one after the other; adding 0.0 leaves a float as it is
_calculate_quality_score(text, price) ==
  FMax(FZero, FMin(FloatLiterals.F1,
    FAdd(FAdd(ScoreMatches(AllPatterns(quality_negative), text, 1,
                           ScoreMatches(AllPatterns(quality_positive), text, 1, FloatLiterals.F0_5, FloatLiterals.F0_1),
                           FNeg(FloatLiterals.F0_15)),
              IF price = NoneNum THEN FZero
              ELSE IF price < Cents(1) THEN FNeg(FloatLiterals.F0_2)
              ELSE IF price > Cents(10000) THEN FNeg(FloatLiterals.F0_3)
              ELSE FZero),
         IF Len(text) > 100 THEN FloatLiterals.F0_1 ELSE FZero)))

_score_to_quality(score) ==
  IF FGe(score, FloatLiterals.F0_8) THEN "EXCELLENT"
  ELSE IF FGe(score, FloatLiterals.F0_65) THEN "GOOD"
  ELSE IF FGe(score, FloatLiterals.F0_5) THEN "ACCEPTABLE"
  ELSE IF FGe(score, FloatLiterals.F0_3) THEN "POOR"
  ELSE "JUNK"

\* what the card type, the set, the number and the quality score add to the
\* confidence one after the other; adding 0.0 leaves a float as it is
\* a confidence that adds the quality score unweighted and is not clamped
_calculate_confidence_unweighted(card_type, detected_set, detected_number, quality_score) ==
  FAdd(FAdd(FAdd(FAdd(FZero, IF card_type = "SINGLE_CARD" THEN FloatLiterals.F0_4
                          ELSE IF card_type = "SEALED_PRODUCT" THEN FloatLiterals.F0_3
                          ELSE IF card_type \in {"BULK_LOT", "ACCESSORY"} THEN FloatLiterals.F0_2
                          ELSE FloatLiterals.F0_1),
                 IF detected_set # None /\ detected_set # "" THEN FloatLiterals.F0_3 ELSE FZero),
            IF detected_number # None /\ detected_number # "" THEN FloatLiterals.F0_2 ELSE FZero),
       quality_score)

_calculate_confidence(card_type, detected_set, detected_number, quality_score) ==
  FMin(FloatLiterals.F1,
    FAdd(FAdd(FAdd(FAdd(FZero, IF card_type = "SINGLE_CARD" THEN FloatLiterals.F0_4
                            ELSE IF card_type = "SEALED_PRODUCT" THEN FloatLiterals.F0_3
                            ELSE IF card_type \in {"BULK_LOT", "ACCESSORY"} THEN FloatLiterals.F0_2
                            ELSE FloatLiterals.F0_1),
                   IF detected_set # None /\ detected_set # "" THEN FloatLiterals.F0_3 ELSE FZero),
              IF detected_number # None /\ detected_number # "" THEN FloatLiterals.F0_2 ELSE FZero),
         FMul(quality_score, FloatLiterals.F0_1)))

_normalize_title(title) ==
  SubI(Cat(<<WB, Lit("pokemon"), WB>>), "Pokemon",
       Sub(Cls({"*"}, 2, Inf, TRUE), "*",
           Sub(Cls({"?"}, 2, Inf, TRUE), "?",
               Sub(Cls({"!"}, 2, Inf, TRUE), "!",
                   Sub(WS1, " ", Strip(title))))))

\* a validity that leaves the card type out
is_valid_untyped(quality_level, confidence, card_type) ==
  quality_level # "JUNK" /\ FGe(confidence, min_confidence_score)

\* step 6 of filter_listing
is_valid(quality_level, confidence, card_type) ==
  quality_level # "JUNK" /\ FGe(confidence, min_confidence_score) /\ card_type # "UNKNOWN"

filter_listing(title, description, price) ==
  LET full_text == Lower(title \o " " \o description)
      \* the two returns, given the values of the locals
      Result(excl, card_type, detected_set, detected_number, detected_condition,
             detected_grade, quality_level, confidence, normalized_title) ==
        IF excl.is_junk
        THEN [is_valid |-> FALSE, quality |-> "JUNK", card_type |-> "UNKNOWN",
              confidence_score |-> FZero, reasons |-> excl.reasons,
              normalized_title |-> normalized_title,
              detected_set |-> None, detected_number |-> None,
              detected_condition |-> None, detected_grade |-> NoneNum]
        ELSE [is_valid |-> is_valid(quality_level, confidence, card_type),
              quality |-> quality_level, card_type |-> card_type,
              confidence_score |-> confidence, reasons |-> <<>>,
              normalized_title |-> normalized_title,
              detected_set |-> detected_set, detected_number |-> detected_number,
              detected_condition |-> detected_condition,
              detected_grade |-> detected_grade]
      \* steps 4 and 5, given the values of steps 1 to 3
      Scored(excl, card_type, detected_set, detected_number, detected_condition,
             detected_grade, quality_score, normalized_title) ==
        Result(excl, card_type, detected_set, detected_number, detected_condition,
               detected_grade, _score_to_quality(quality_score),
               _calculate_confidence(card_type, detected_set, detected_number, quality_score),
               normalized_title)
  IN Scored(_check_immediate_exclusions(full_text), _detect_card_type(full_text),
            _extract_set_info(title), _extract_card_number(title),
            _extract_condition(full_text), _extract_grade(full_text),
            _calculate_quality_score(full_text, price), _normalize_title(title))

(* ------------------------------------------------------------------ *)
(* EntityResolver                                                      *)
(* ------------------------------------------------------------------ *)
\* a value of type "X | None" that is None
NoneRec == [none |-> TRUE]

RARITY_MAPPINGS == <<
  [key |-> "common", value |-> "Common"],
  [key |-> "uncommon", value |-> "Uncommon"],
  [key |-> "rare", value |-> "Rare"],
  [key |-> "ultra rare", value |-> "Ultra Rare"],
  [key |-> "secret rare", value |-> "Secret Rare"],
  [key |-> "rainbow rare", value |-> "Rainbow Rare"],
  [key |-> "gold rare", value |-> "Gold Rare"],
  [key |-> "full art", value |-> "Full Art"],
  [key |-> "alternate art", value |-> "Alt Art"],
  [key |-> "promo", value |-> "Promo"],
  [key |-> "special", value |-> "Special"]
>>

FINISH_MAPPINGS == <<
  [key |-> "regular", value |-> "Regular"],
  [key |-> "reverse holo", value |-> "Reverse Holo"],
  [key |-> "holo", value |-> "Holo"],
  [key |-> "full art", value |-> "Full Art"],
  [key |-> "alt art", value |-> "Alt Art"],
  [key |-> "rainbow", value |-> "Rainbow"],
  [key |-> "gold", value |-> "Gold"],
  [key |-> "textured", value |-> "Textured"]
>>

confidence_threshold == 85

\* "~" stands for a character of the ranges U+3040-U+30FF and U+4E00-U+9FAF
japanese_pattern == Cls({"~"}, 1, 1, TRUE)

\* the indicators that ASCII text can contain
non_english_indicators == <<"japanese", "jp", "korean", "kr", "chinese", "cn", "deutsch", "italiano">>

\* x or '' for an optional string x
OrEmpty(x) == IF x = None THEN "" ELSE x
\* bool(x) for an optional string x
Truthy(x) == x # None /\ x # ""

\* a language check that looks at the name only
_is_english_name(name, set_info) ==
  IF Found(japanese_pattern, name) THEN FALSE
  ELSE ~\E k \in 1..Len(non_english_indicators) :
          Contains(Lower(name), non_english_indicators[k])

_is_english_card(name, set_info) ==
  IF Found(japanese_pattern, name) THEN FALSE
  ELSE IF Truthy(set_info) /\ Found(japanese_pattern, set_info) THEN FALSE
  ELSE LET text_to_check == Lower(name \o " " \o OrEmpty(set_info))
       IN ~\E k \in 1..Len(non_english_indicators) :
             Contains(text_to_check, non_english_indicators[k])

_normalize_name(name) ==
  Strip(SubI(Cat(<<WB, Lit("VSTAR"), WB>>), "VSTAR",
        SubI(Cat(<<WB, Lit("VMAX"), WB>>), "VMAX",
        Sub(Cat(<<WB, Lit("V"), WB>>), "V",
        SubI(Cat(<<WB, Lit("GX"), WB>>), "GX",
        Sub(Cat(<<WB, Lit("EX"), WB>>), "ex",
        SubI(Cat(<<WB, Lit("ex"), WB>>), "ex",
        Sub(Cat(<<WS0, Lit("-"), WS0, Dot(0, Inf, TRUE), EOL>>), "",
        Sub(Cat(<<WS0, Lit("("), Dot(0, Inf, FALSE), Lit(")"), WS0>>), "",
        Sub(WS1, " ", Strip(name)))))))))))

set_code_patterns == <<
  Cat(<<WB, Grp(Cat(<<Cls(UpperSet, 2, 4, TRUE), Cls(DigitSet, 1, 3, TRUE), Cls(LowerSet, 0, 1, TRUE)>>)), WB>>),
  Cat(<<WB, Grp(Alt(<<Lit("Base Set"), Lit("Jungle"), Lit("Fossil"), Lit("Team Rocket")>>)), WB>>),
  Cat(<<WB, Grp(Cls(UpperSet, 2, 3, TRUE)), WB>>)
>>

_extract_set_code(set_info) ==
  LET RECURSIVE SetCodeFrom(_)
      FirstWord(words) ==
        IF /\ Len(words) > 0 /\ Len(words[1]) <= 6
           /\ \E k \in 1..Len(words[1]) : At(words[1], k) \in DigitSet
        THEN Upper(words[1]) ELSE None
      Matched(match, i) ==
        IF match.found THEN Upper(Group1(match, set_info)) ELSE SetCodeFrom(i + 1)
      \* the loop over set_code_patterns[i..], and the fallback after it
      SetCodeFrom(i) ==
        IF i > Len(set_code_patterns) THEN FirstWord(Split(set_info))
        ELSE Matched(SearchI(set_code_patterns[i], set_info), i)
  IN IF ~Truthy(set_info) THEN None ELSE SetCodeFrom(1)

\* a number normalization that keeps a number without digits
_normalize_number_raw(number) ==
  LET Matched(match) == IF match.found THEN Group1(match, Upper(number)) ELSE Upper(number)
  IN IF ~Truthy(number) THEN None
     ELSE Matched(Search(Grp(Cat(<<Cls(UpperSet, 0, 1, TRUE), D1>>)), Upper(number)))

number_pattern == Grp(Cat(<<Cls(UpperSet, 0, 1, TRUE), D1>>))

_normalize_number(number) ==
  LET Matched(match) == IF match.found THEN Group1(match, Upper(number)) ELSE None
  IN IF ~Truthy(number) THEN None
     ELSE Matched(Search(number_pattern, Upper(number)))

\* process.extract(query, keys, limit=1) of fuzzywuzzy is outside the
\* repository: its outcome fz is the index of the key it ranks first with a
\* score above 80, or NoFuzzy when the best score is 80 or less
NoFuzzy == 0
FuzzyOutcomes(mappings) == 0..Len(mappings)

RECURSIVE DirectMapping(_, _, _)
\* the value of the first key of mappings[i..] that text contains, or None
DirectMapping(mappings, text, i) ==
  IF i > Len(mappings) THEN None
  ELSE IF Contains(text, mappings[i].key) THEN mappings[i].value
  ELSE DirectMapping(mappings, text, i + 1)

_normalize_rarity(rarity, fz) ==
  IF ~Truthy(rarity) THEN None
  ELSE LET direct == DirectMapping(RARITY_MAPPINGS, Strip(Lower(rarity)), 1)
       IN IF direct # None THEN direct
          ELSE IF fz # NoFuzzy THEN RARITY_MAPPINGS[fz].value
          ELSE Title(rarity)

_normalize_finish(finish, fz) ==
  IF ~Truthy(finish) THEN "Regular"
  ELSE LET direct == DirectMapping(FINISH_MAPPINGS, Strip(Lower(finish)), 1)
       IN IF direct # None THEN direct
          ELSE IF fz # NoFuzzy THEN FINISH_MAPPINGS[fz].value
          ELSE Title(finish)

\* whether _normalize_rarity (_normalize_finish) reaches the fuzzy matching
NeedsFuzzy(mappings, x) == Truthy(x) /\ DirectMapping(mappings, Strip(Lower(x)), 1) = None

suspicious_patterns == <<
  Lit("?"),
  Lit("unknown"),
  Lit("error"),
  Lit("n/a")
>>

\* a confidence that does not penalize one-word names
_calculate_confidence_any_name(name, set_info, number, rarity) ==
  LET c1 == 100 - (IF ~Truthy(set_info) THEN 20 ELSE 0)
      c2 == c1 - (IF ~Truthy(number) THEN 15 ELSE 0)
      c3 == c2 - (IF ~Truthy(rarity) THEN 10 ELSE 0)
      text_to_check == Lower(name \o " " \o OrEmpty(set_info) \o " " \o OrEmpty(number)
                             \o " " \o OrEmpty(rarity))
      hits == Cardinality({k \in 1..Len(suspicious_patterns) :
                             Found(suspicious_patterns[k], text_to_check)})
  IN Max(0, c3 - 15 * hits)

\* a confidence that takes 5 for a missing rarity
_calculate_confidence_rarity_5(name, set_info, number, rarity) ==
  LET c1 == 100 - (IF ~Truthy(set_info) THEN 20 ELSE 0)
      c2 == c1 - (IF ~Truthy(number) THEN 15 ELSE 0)
      c3 == c2 - (IF ~Truthy(rarity) THEN 5 ELSE 0)
      c4 == c3 - (IF Len(Split(name)) < 2 THEN 10 ELSE 0)
      text_to_check == Lower(name \o " " \o OrEmpty(set_info) \o " " \o OrEmpty(number)
                             \o " " \o OrEmpty(rarity))
      hits == Cardinality({k \in 1..Len(suspicious_patterns) :
                             Found(suspicious_patterns[k], text_to_check)})
  IN Max(0, c4 - 15 * hits)

\* the confidence is a float with an integer value
_calculate_entity_confidence(name, set_info, number, rarity) ==
  LET c1 == 100 - (IF ~Truthy(set_info) THEN 20 ELSE 0)
      c2 == c1 - (IF ~Truthy(number) THEN 15 ELSE 0)
      c3 == c2 - (IF ~Truthy(rarity) THEN 10 ELSE 0)
      c4 == c3 - (IF Len(Split(name)) < 2 THEN 10 ELSE 0)
      text_to_check == Lower(name \o " " \o OrEmpty(set_info) \o " " \o OrEmpty(number)
                             \o " " \o OrEmpty(rarity))
      hits == Cardinality({k \in 1..Len(suspicious_patterns) :
                             Found(suspicious_patterns[k], text_to_check)})
  IN Max(0, c4 - 15 * hits)

\* str(n) for n >= 0
IntToStr(n) ==
  LET RECURSIVE Digits(_)
      Digits(k) == IF k = 0 THEN "" ELSE Digits(k \div 10) \o At(DigitChars, (k % 10) + 1)
  IN IF n = 0 THEN "0" ELSE Digits(n)

resolve_card(name, set_info, number, rarity, finish, grade, fzr, fzf) ==
  LET OrUnknown(rarity_norm) == IF Truthy(rarity_norm) THEN rarity_norm ELSE "Unknown"
      sku_parts(set_code, number_norm, name_norm, rarity_norm, finish_norm) ==
        <<set_code, number_norm, ReplaceCh(name_norm, " ", "_"), OrUnknown(rarity_norm)>>
        \o (IF finish_norm # "Regular" THEN <<ReplaceCh(finish_norm, " ", "_")>> ELSE <<>>)
        \o (IF grade # NoneNum /\ grade # 0 THEN <<"PSA" \o IntToStr(grade)>> ELSE <<>>)
      Resolved(name_norm, set_code, number_norm, rarity_norm, finish_norm, confidence) ==
        IF ~Truthy(name_norm) \/ ~Truthy(set_code) \/ ~Truthy(number_norm) THEN NoneRec
        ELSE IF confidence < confidence_threshold THEN NoneRec
        ELSE [canonical_sku |-> Join("_", sku_parts(set_code, number_norm, name_norm,
                                                    rarity_norm, finish_norm)),
              set_code |-> set_code,
              card_number |-> number_norm,
              name_normalized |-> name_norm,
              rarity |-> OrUnknown(rarity_norm),
              finish |-> finish_norm,
              grade |-> grade,
              language |-> "EN",
              confidence |-> confidence]
  IN IF ~_is_english_card(name, set_info) THEN NoneRec
     ELSE Resolved(_normalize_name(name),
                   IF Truthy(set_info) THEN _extract_set_code(set_info) ELSE None,
                   IF Truthy(number) THEN _normalize_number(number) ELSE None,
                   IF Truthy(rarity) THEN _normalize_rarity(rarity, fzr) ELSE None,
                   IF Truthy(finish) THEN _normalize_finish(finish, fzf) ELSE "Regular",
                   _calculate_entity_confidence(name, set_info, number, rarity))

(* ------------------------------------------------------------------ *)
(* FilteredEntityResolver                                              *)
(* ------------------------------------------------------------------ *)
market_tiers == <<
  [tier |-> "premium", rarities |-> <<"secret rare", "rainbow rare", "gold rare", "alt art", "full art">>],
  [tier |-> "mid", rarities |-> <<"rare", "ultra rare", "holo rare">>],
  [tier |-> "budget", rarities |-> <<"common", "uncommon", "regular rare">>]
>>

\* the third pattern's class holds "-" and three non-ASCII characters
pokemon_patterns == <<
  Cat(<<BOL, Grp(Cat(<<Cls(UpperSet \cup LowerSet, 1, 1, TRUE), Cls(UpperSet \cup LowerSet \cup SpaceSet, 1, Inf, FALSE)>>)), Alt(<<Cat(<<WS1, Alt(<<Lit("ex"), Lit("EX"), Lit("GX"), Lit("V"), Lit("VMAX"), Lit("VSTAR"), Lit("&")>>)>>), Cat(<<WS1, Cls(DigitSet, 1, 1, TRUE)>>), Cat(<<WS0, EOL>>)>>)>>),
  Cat(<<WB, Grp(Cat(<<Cls(UpperSet \cup LowerSet, 1, 1, TRUE), Cls(UpperSet \cup LowerSet \cup SpaceSet, 1, Inf, FALSE)>>)), WS1, Alt(<<Lit("ex"), Lit("EX"), Lit("GX"), Lit("V"), Lit("VMAX"), Lit("VSTAR")>>), WB>>),
  Cat(<<BOL, Grp(Cat(<<Cls(UpperSet \cup LowerSet, 1, 1, TRUE), Cls(UpperSet \cup LowerSet \cup SpaceSet, 1, Inf, FALSE)>>)), WS0, Cls({"-"}, 1, 1, TRUE), WS0>>),
  Cat(<<BOL, Grp(Cat(<<Cls(UpperSet, 1, 1, TRUE), Cls(LowerSet, 1, Inf, TRUE), Rep(Cat(<<WS1, Cls(UpperSet, 1, 1, TRUE), Cls(LowerSet, 1, Inf, TRUE)>>), 0, Inf, TRUE)>>))>>)
>>

_extract_pokemon_name(title) ==
  LET RECURSIVE PokemonNameFrom(_)
      FirstWord(words) ==
        IF /\ Len(words) > 0 /\ Len(words[1]) >= 3
           /\ \A k \in 1..Len(words[1]) : At(words[1], k) \in AlphaSet
        THEN words[1] ELSE "Unknown"
      Cleaned(found, name, i) ==
        IF found /\ Len(name) >= 3 THEN Strip(name) ELSE PokemonNameFrom(i + 1)
      Named(match, text, i) ==
        Cleaned(match.found,
                SubI(Cat(<<WB, Alt(<<Lit("Pokemon"), Lit("Card"), Lit("TCG")>>), WB>>), "",
                     Sub(WS1, " ", Strip(IF match.found THEN Group1(match, text) ELSE ""))),
                i)
      \* the loop over pokemon_patterns[i..], and the fallback after it
      PokemonNameFrom(i) ==
        IF i > Len(pokemon_patterns) THEN FirstWord(Split(title))
        ELSE Named(Search(pokemon_patterns[i], Strip(title)), Strip(title), i)
  IN PokemonNameFrom(1)

rarity_patterns == <<
  [name |-> "Secret Rare", patterns |-> <<Cat(<<WB, Lit("secret"), WS1, Lit("rare"), WB>>), Cat(<<WB, Lit("SR"), WB>>), Cat(<<WB, Lit("secret"), WB>>)>>],
  [name |-> "Rainbow Rare", patterns |-> <<Cat(<<WB, Lit("rainbow"), WS1, Lit("rare"), WB>>), Cat(<<WB, Lit("rainbow"), WB>>)>>],
  [name |-> "Gold Rare", patterns |-> <<Cat(<<WB, Lit("gold"), WS1, Lit("rare"), WB>>), Cat(<<WB, Lit("gold"), WB>>)>>],
  [name |-> "Alt Art", patterns |-> <<Cat(<<WB, Lit("alternate"), WS1, Lit("art"), WB>>), Cat(<<WB, Lit("alt"), WS1, Lit("art"), WB>>), Cat(<<WB, Lit("alternative"), WB>>)>>],
  [name |-> "Full Art", patterns |-> <<Cat(<<WB, Lit("full"), WS1, Lit("art"), WB>>)>>],
  [name |-> "Ultra Rare", patterns |-> <<Cat(<<WB, Lit("ultra"), WS1, Lit("rare"), WB>>), Cat(<<WB, Lit("UR"), WB>>)>>],
  [name |-> "Rare", patterns |-> <<Cat(<<WB, Lit("holo"), WS1, Lit("rare"), WB>>), Cat(<<WB, Lit("rare"), WS1, Lit("holo"), WB>>), Cat(<<WB, Lit("rare"), WB>>)>>],
  [name |-> "Uncommon", patterns |-> <<Cat(<<WB, Lit("uncommon"), WB>>)>>],
  [name |-> "Common", patterns |-> <<Cat(<<WB, Lit("common"), WB>>)>>],
  [name |-> "Promo", patterns |-> <<Cat(<<WB, Lit("promo"), WB>>), Cat(<<WB, Lit("promotional"), WB>>)>>]
>>

finish_patterns == <<
  [name |-> "Reverse Holo", patterns |-> <<Cat(<<WB, Lit("reverse"), WS1, Lit("holo"), WB>>), Cat(<<WB, Lit("rev"), WS1, Lit("holo"), WB>>)>>],
  [name |-> "Holo", patterns |-> <<Cat(<<WB, Lit("holographic"), WB>>), Cat(<<WB, Lit("holo"), WB>>)>>],
  [name |-> "Full Art", patterns |-> <<Cat(<<WB, Lit("full"), WS1, Lit("art"), WB>>)>>],
  [name |-> "Alt Art", patterns |-> <<Cat(<<WB, Lit("alternate"), WS1, Lit("art"), WB>>), Cat(<<WB, Lit("alt"), WS1, Lit("art"), WB>>)>>],
  [name |-> "Rainbow", patterns |-> <<Cat(<<WB, Lit("rainbow"), WB>>)>>],
  [name |-> "Gold", patterns |-> <<Cat(<<WB, Lit("gold"), WB>>)>>],
  [name |-> "Textured", patterns |-> <<Cat(<<WB, Lit("textured"), WB>>)>>]
>>

RECURSIVE FirstNamed(_, _, _)
\* the name of the first entry of table[i..] one of whose patterns text matches
FirstNamed(table, text, i) ==
  IF i > Len(table) THEN None
  ELSE IF AnyFound(table[i].patterns, text) THEN table[i].name
  ELSE FirstNamed(table, text, i + 1)

_extract_rarity_from_text(text) == FirstNamed(rarity_patterns, Lower(text), 1)

_extract_finish_from_text(text) == FirstNamed(finish_patterns, Lower(text), 1)

_extract_card_info_from_filter(filter_result, title, description) ==
  LET OrRegular(finish) == IF Truthy(finish) THEN finish ELSE "Regular"
  IN [name |-> _extract_pokemon_name(filter_result.normalized_title),
      set_info |-> OrEmpty(filter_result.detected_set),
      number |-> OrEmpty(filter_result.detected_number),
      rarity |-> OrEmpty(_extract_rarity_from_text(title \o " " \o description)),
      finish |-> OrRegular(_extract_finish_from_text(title \o " " \o description))]

_classify_market_tier(rarity, finish) ==
  LET RECURSIVE TierFrom(_)
      \* the loop over the items of market_tiers from the i-th on
      TierFrom(i) ==
        IF i > Len(market_tiers) THEN "budget"
        ELSE IF \E k \in 1..Len(market_tiers[i].rarities) :
                   \/ Contains(Lower(rarity), market_tiers[i].rarities[k])
                   \/ Contains(Lower(finish), market_tiers[i].rarities[k])
             THEN market_tiers[i].tier
             ELSE TierFrom(i + 1)
  IN TierFrom(1)

\* the price ranges of the tiers, in cents
tier_ranges(market_tier) ==
  CASE market_tier = "premium" -> <<5000, 200000>>
    [] market_tier = "mid" -> <<1000, 20000>>
    [] market_tier = "budget" -> <<50, 5000>>
    [] OTHER -> <<0, 1000000>>

\* an estimate that takes the ends of the range as outside it
_estimate_price_open_range(rarity, market_tier, price) ==
  LET min_price == tier_ranges(market_tier)[1]
      max_price == tier_ranges(market_tier)[2]
  IN IF price = NoneNum THEN NoneRec
     ELSE IF min_price < price /\ price < max_price THEN FloatLiterals.F1
     ELSE IF price <= min_price THEN FloatLiterals.F0_3
     ELSE FloatLiterals.F0_6

_estimate_price_reasonableness(rarity, market_tier, price) ==
  LET min_price == tier_ranges(market_tier)[1]
      max_price == tier_ranges(market_tier)[2]
  IN IF price = NoneNum THEN NoneRec
     ELSE IF min_price <= price /\ price <= max_price THEN FloatLiterals.F1
     ELSE IF price < min_price THEN FloatLiterals.F0_3
     ELSE FloatLiterals.F0_6

_create_enhanced_entity(base_entity, filter_result, title, price, card_info) ==
  LET Enhanced(market_tier) ==
        [canonical_sku |-> base_entity.canonical_sku,
         set_code |-> base_entity.set_code,
         card_number |-> base_entity.card_number,
         name_normalized |-> base_entity.name_normalized,
         rarity |-> base_entity.rarity,
         finish |-> base_entity.finish,
         grade |-> base_entity.grade,
         language |-> base_entity.language,
         confidence |-> base_entity.confidence,
         filter_quality |-> filter_result.quality,
         card_type |-> filter_result.card_type,
         filter_confidence |-> filter_result.confidence_score,
         source_title |-> title,
         validation_reasons |-> filter_result.reasons,
         detected_condition |-> filter_result.detected_condition,
         price_estimate |-> _estimate_price_reasonableness(base_entity.rarity, market_tier, price),
         market_tier |-> market_tier]
  IN Enhanced(_classify_market_tier(base_entity.rarity, card_info.finish))

\* FilteredEntityResolver.confidence_threshold
enhanced_confidence_threshold == 85

_validate_enhanced_entity(entity) ==
  IF entity.confidence < enhanced_confidence_threshold THEN FALSE
  ELSE IF entity.filter_quality = "JUNK" THEN FALSE
  ELSE IF entity.name_normalized = "" \/ entity.name_normalized = "Unknown" THEN FALSE
  ELSE TRUE

\* every card type that the filter can name
named_card_types ==
  {"SINGLE_CARD", "SEALED_PRODUCT", "BULK_LOT", "ACCESSORY", "DIGITAL_CODE", "CUSTOM_PROXY"}

\* the card types that resolve_ebay_listing goes on to resolve
processed_card_types == {"SINGLE_CARD", "SEALED_PRODUCT"}

\* resolve_ebay_listing with its locals at the return: base_entity is NoneRec
\* when the call returned before step 3, or when resolve_card returned None
resolve_ebay_listing_locals(title, description, price, fzr, fzf) ==
  LET Locals(filter_result, base_entity, returned) ==
        [filter_result |-> filter_result, base_entity |-> base_entity, returned |-> returned]
      Enhanced(filter_result, base_entity, enhanced_entity) ==
        Locals(filter_result, base_entity,
               IF ~_validate_enhanced_entity(enhanced_entity) THEN NoneRec ELSE enhanced_entity)
      Resolved(filter_result, card_info, base_entity) ==
        IF base_entity = NoneRec THEN Locals(filter_result, NoneRec, NoneRec)
        ELSE Enhanced(filter_result, base_entity,
                      _create_enhanced_entity(base_entity, filter_result, title, price, card_info))
      Extracted(filter_result, card_info) ==
        Resolved(filter_result, card_info,
                 resolve_card(card_info.name, card_info.set_info, card_info.number,
                              card_info.rarity, card_info.finish,
                              filter_result.detected_grade, fzr, fzf))
      Filtered(filter_result) ==
        IF ~filter_result.is_valid \/ filter_result.quality = "JUNK"
        THEN Locals(filter_result, NoneRec, NoneRec)
        ELSE IF filter_result.card_type \notin processed_card_types
        THEN Locals(filter_result, NoneRec, NoneRec)
        ELSE Extracted(filter_result,
                       _extract_card_info_from_filter(filter_result, title, description))
  IN Filtered(filter_listing(title, description, price))

resolve_ebay_listing(title, description, price, fzr, fzf) ==
  resolve_ebay_listing_locals(title, description, price, fzr, fzf).returned

RECURSIVE batch_resolve(_, _)
\* cards: the card dicts; fz: the fuzzywuzzy outcomes <<fzr, fzf>> of each call
batch_resolve(cards, fz) ==
  IF cards = <<>> THEN <<>>
  ELSE <<resolve_card(Head(cards).name, Head(cards).set, Head(cards).number,
                      Head(cards).rarity, Head(cards).finish, Head(cards).grade,
                      Head(fz)[1], Head(fz)[2])>>
       \o batch_resolve(Tail(cards), Tail(fz))

\* a batch that keeps the listings that resolve to None
batch_resolve_listings_all(listings, fz) ==
  [raised |-> None,
   returned |-> [k \in 1..Len(listings) |->
                   resolve_ebay_listing(listings[k].title, listings[k].description,
                                        listings[k].price, fz[k][1], fz[k][2])]]

\* str(x) of an f-string for an optional string x
Str(x) == IF x = None THEN "None" ELSE x

\* the exception that resolve_ebay_listing raises for a title or a description
\* that is None, or None when it returns: filter_listing formats both into
\* full_text and then takes the title for a string; the description is first
\* taken for a string when the card information is extracted
resolve_ebay_listing_raised(title, description, price) ==
  LET Filtered(filter_result) ==
        IF ~filter_result.is_valid \/ filter_result.quality = "JUNK" THEN None
        ELSE IF filter_result.card_type \notin processed_card_types THEN None
        ELSE "TypeError"
  IN IF title = None
     THEN IF _check_immediate_exclusions(Lower(Str(title) \o " " \o Str(description))).is_junk
          THEN "AttributeError" ELSE "TypeError"
     ELSE IF description = None THEN Filtered(filter_listing(title, Str(description), price))
     ELSE None

RECURSIVE batch_resolve_listings(_, _)
\* listings: the listing dicts; fz: the fuzzywuzzy outcomes <<fzr, fzf>> of each
\* call; raised is the exception that leaves the call, or None with the list
\* returned
batch_resolve_listings(listings, fz) ==
  LET Kept(entity) == IF entity # NoneRec THEN <<entity>> ELSE <<>>
      \* the iterations after the first, which appended entities
      Then(entities, rest) ==
        IF rest.raised # None THEN rest
        ELSE [raised |-> None, returned |-> entities \o rest.returned]
      \* the try statement for the first listing; its except clause slices the title
      Tried(exception) ==
        IF exception # None
        THEN IF Head(listings).title = None THEN [raised |-> "TypeError", returned |-> NoneRec]
             ELSE batch_resolve_listings(Tail(listings), Tail(fz))
        ELSE Then(Kept(resolve_ebay_listing(Head(listings).title, Str(Head(listings).description),
                                            Head(listings).price, Head(fz)[1], Head(fz)[2])),
                  batch_resolve_listings(Tail(listings), Tail(fz)))
  IN IF listings = <<>> THEN [raised |-> None, returned |-> <<>>]
     ELSE Tried(resolve_ebay_listing_raised(Head(listings).title, Head(listings).description,
                                            Head(listings).price))

RECURSIVE batch_filter_valid(_)
\* a batch that keeps only the results that are valid
batch_filter_valid(listings) ==
  LET Kept(r) == IF r.is_valid THEN <<r>> ELSE <<>>
  IN IF listings = <<>> THEN <<>>
     ELSE Kept(filter_listing(Head(listings).title, Head(listings).description,
                              Head(listings).price))
          \o batch_filter_valid(Tail(listings))

RECURSIVE batch_filter(_)
\* listings: the listing dicts
batch_filter(listings) ==
  IF listings = <<>> THEN <<>>
  ELSE <<filter_listing(Head(listings).title, Head(listings).description,
                        Head(listings).price)>>
       \o batch_filter(Tail(listings))

\* a duplicate search that does not remember the SKUs it has reported
find_duplicates_unseen(entities) ==
  LET Matches(sku) == SelectSeq(entities, LAMBDA e : e.canonical_sku = sku)
      RECURSIVE Loop(_, _)
      Loop(i, duplicates) ==
        IF i > Len(entities) THEN duplicates
        ELSE IF Len(Matches(entities[i].canonical_sku)) > 1
        THEN Loop(i + 1, Append(duplicates, Matches(entities[i].canonical_sku)))
        ELSE Loop(i + 1, duplicates)
  IN Loop(1, <<>>)

find_duplicates(entities) ==
  LET Matches(sku) == SelectSeq(entities, LAMBDA e : e.canonical_sku = sku)
      RECURSIVE Loop(_, _, _)
      \* the loop over entities[i..]
      Loop(i, duplicates, seen) ==
        IF i > Len(entities) THEN duplicates
        ELSE IF entities[i].canonical_sku \in seen THEN Loop(i + 1, duplicates, seen)
        ELSE IF Len(Matches(entities[i].canonical_sku)) > 1
        THEN Loop(i + 1, Append(duplicates, Matches(entities[i].canonical_sku)),
                  seen \cup {entities[i].canonical_sku})
        ELSE Loop(i + 1, duplicates, seen)
  IN Loop(1, <<>>, {})

(* ------------------------------------------------------------------ *)
(* The calls: a filter, a resolver and a filtered resolver that keep   *)
(* no state between calls                                              *)
(* ------------------------------------------------------------------ *)
VARIABLES
  pc,             \* "idle" between calls, "done" when a call has returned
  op,             \* the operation called
  args,           \* its arguments
  filter_result,  \* local filter_result of resolve_ebay_listing
  base_entity,    \* local base_entity of resolve_ebay_listing
  result,         \* the value returned
  raised          \* the exception that left the call, None when it returned

vars == <<pc, op, args, filter_result, base_entity, result, raised>>

MaxCards == 2
MaxListings == 2
MaxEntities == 4

Titles == {
  "Charizard VMAX 074/172 Brilliant Stars Secret Rare PSA 10 Mint",
  "Pokemon Card Sleeves Ultra Pro 65ct Deck Protectors",
  "Pokemon Random Card Lot 100 Cards Mixed",
  "Pokemon Bulk Lot 500 Cards Assorted",
  "Pokemon TCG Online Code - Digital Download",
  "Pokemon Mystery Box 20 Cards Rare Included",
  "Charizard 25 cards Base Set 4/102",
  "Pikachu promo code 25/165 Paldea Evolved",
  "Pikachu ex damage counter 25/165 Paldea Evolved Rare",
  "Pikachu altered 25/165 Paldea Evolved",
  "Charizard 4/102 Base Set",
  "Charizard holo",
  "Charizard holo protector 12 cards",
  "Pikachu ex 025/165 Paldea Evolved PAL Rare",
  "Booster Box Sealed Evolving Skies" }

\* malformed titles: empty, symbols only, longer than 100 characters
MalformedTitles == {
  "",
  "~~ ** ##",
  "Pokemon Charizard Charizard Charizard Charizard Charizard Charizard Charizard Charizard Charizard Charizard Card" }

\* titles that name one alias of modern_sets each, or two of them
SetTitles ==
  UNION {{"Charizard " \o modern_sets[i].names[j] : j \in 1..Len(modern_sets[i].names)} :
           i \in 1..Len(modern_sets)} \cup
  {"Charizard " \o a \o " " \o b :
     a \in {"Jungle", "Fossil", "TR", "Base Set", "151"},
     b \in {"Jungle", "Fossil", "TR", "Base Set", "151"}}

\* titles that state a condition
ConditionTitles == {
  "Charizard Mint Condition Pokemon Card",
  "Pikachu Near Mint NM Pokemon",
  "Umbreon Lightly Played LP Card",
  "Charizard Heavily Played Pokemon",
  "Damaged Pokemon Card As Is",
  "Charizard Damaged Pokemon Card",
  "Pikachu near mint",
  "Pikachu moderately played" }

\* the grades that the grading companies give: the numeral and its integer part
PsaGrades ==
  {<<"10", 10>>, <<"9", 9>>, <<"8", 8>>, <<"7", 7>>, <<"6", 6>>, <<"5", 5>>,
   <<"4", 4>>, <<"3", 3>>, <<"2", 2>>, <<"1", 1>>}
HalfGrades ==
  {<<"10", 10>>, <<"9.5", 9>>, <<"9", 9>>, <<"8.5", 8>>, <<"8", 8>>, <<"7.5", 7>>,
   <<"7", 7>>, <<"6.5", 6>>, <<"6", 6>>}
GradeNotations ==
  ({"PSA"} \X PsaGrades) \cup ({"BGS", "Beckett", "CGC"} \X HalfGrades)

\* titles that state a grade, and titles that state two
GradeTitles ==
  {"Pikachu " \o n[1] \o " " \o n[2][1] \o " Graded" : n \in GradeNotations} \cup
  {"Charizard PSA 10 Gem Mint",
   "Pikachu BGS 9.5 Beckett",
   "Umbreon CGC 8.5 Graded",
   "Charizard PSA 7 Near Mint",
   "Pikachu BGS 9.5 PSA 10",
   "Pikachu CGC 8.5 BGS 9.5",
   "Pikachu PSA10",
   "Pikachu BGS 5 Graded",
   "Pikachu Graded" }

\* the titles of the calls that give a title alone
DetectionTitles == SetTitles \cup ConditionTitles \cup GradeTitles

Descriptions == {
  "",
  "authentic original official centering corners",
  "heavy wear creased bent stained faded",
  "sold as is" }

\* in cents; NoneNum: no price
Prices == {NoneNum, 899, 29999}

Names == {"Charizard ex", "Mew", "Unknown"}
SetInfos == {"Paldea Evolved PAL", None}
Numbers == {"006/165", None}
Rarities == {"Secret Rare", "uncommon", "Rare", "Amazing", None}
Finishes == {None, "Reverse Holo", "cosmos"}
Grades == {NoneNum, 0, 10}

\* calls that meet the gates of resolve_card one at a time
GateCards ==
  {[name |-> c[1], set_info |-> c[2], number |-> c[3], rarity |-> c[4],
    finish |-> None, grade |-> NoneNum] :
     c \in {<<"(Holo)", "Paldea Evolved PAL", "006/165", "Rare">>,
            <<"Charizard ex", "Paldea Evolved", "006/165", "Rare">>,
            <<"Charizard ex", "", "006/165", "Rare">>,
            <<"Charizard ex", "Paldea Evolved PAL", "abc", "Rare">>,
            <<"Charizard ex", "Paldea Evolved PAL", "", "Rare">>,
            <<"Pikachu ~ ex", "Paldea Evolved PAL", "006/165", "Rare">>,
            <<"Charizard ex", "~ PAL", "006/165", "Rare">>,
            <<"Charizard ex", "Japanese PAL", "006/165", "Rare">>,
            <<"Pikachu ex jp", "Paldea Evolved PAL", "006/165", "Rare">>,
            <<"Charizard ex?", "Paldea Evolved PAL", "006/165", "Rare">>,
            <<"Charizard ex", "Paldea Evolved PAL", "006/165", "n/a error">>,
            <<"Kricketune V", "Paldea Evolved PAL", "006/165", "Rare">>,
            <<"Krabby ex", "Paldea Evolved PAL", "006/165", "Rare">>}}

\* the arguments of a resolve_card call
CardArgs ==
  [name : Names, set_info : SetInfos, number : Numbers, rarity : Rarities,
   finish : Finishes, grade : Grades] \cup GateCards

\* the card dicts of a batch
BatchCards ==
  {[name |-> n, set |-> "PAL", number |-> "6", rarity |-> "Rare", finish |-> None, grade |-> g] :
     n \in {"Charizard ex", "charizard EX", "Pikachu V", "Pikachu v", "Mr Mime", "Mr_Mime"},
     g \in {NoneNum, 0}}

EbayTitles == Titles \cup {
  "Mew ex 151/165 SV4 Full Art Holo",
  "Umbreon VMAX 215/203 EVS Rainbow Rare PSA 9",
  "Pikachu V 025/165 Paldea Evolved Alt Art",
  "Charizard VMAX 074/172 Brilliant Stars PSA 10",
  "Charizard VMAX Pokemon Card",
  "Pokemon Booster Box Sealed",
  "Charizard ex 4/102 Base Set Rare" }

EbayDescriptions == {"", "authentic original"}

\* the listing dicts of a batch
BatchListings == {
  [title |-> "Charizard VMAX 074/172 Brilliant Stars Secret Rare PSA 10 Mint",
   description |-> "", price |-> 29999],
  [title |-> "Pikachu ex 025/165 Paldea Evolved PAL Rare", description |-> "", price |-> NoneNum],
  [title |-> "Pokemon Card Sleeves Ultra Pro 65ct Deck Protectors", description |-> "", price |-> 899],
  [title |-> "Pikachu ex damage counter 25/165 Paldea Evolved Rare", description |-> "", price |-> 899] }

\* listing dicts some of which have None as title or description
FaultyListings ==
  {[title |-> l[1], description |-> l[2], price |-> l[3]] :
     l \in {<<"Pikachu ex 025/165 PAL Rare", "", NoneNum>>,
            <<"Charizard ex 006/165 PAL Rare", "", 899>>,
            <<"Mew ex 151/165 MEW Rare", "", NoneNum>>,
            <<"Umbreon V 94/203 EVS Rare", "", 29999>>,
            <<"Pokemon Card Sleeves", "", 899>>,
            <<None, "", NoneNum>>,
            <<None, "sold as is", NoneNum>>,
            <<None, None, NoneNum>>,
            <<"Pikachu ex 025/165 PAL Rare", None, NoneNum>>,
            <<"Charizard holo", None, NoneNum>>}}

\* entities that resolve_card returned, two of them with one SKU
DuplicateEntities ==
  {resolve_card(c[1], "PAL", "6", "Rare", None, c[2], NoFuzzy, NoFuzzy) :
     c \in {<<"Charizard ex", NoneNum>>, <<"Charizard ex", 0>>,
            <<"Pikachu V", NoneNum>>, <<"Mr Mime", NoneNum>>}}

\* listings of the three market tiers, and prices in cents at, next to and far
\* from the ends of the ranges of the tiers
PricedTitles == {
  "Pikachu V 025/165 Paldea Evolved Full Art",
  "Mew ex 151/165 SV4 Full Art Holo",
  "Pikachu ex 025/165 Paldea Evolved PAL Rare",
  "Pikachu V 025/165 PAL Holo Rare",
  "Pikachu V 025/165 Paldea Evolved Common",
  "Pikachu V 025/165 PAL Uncommon" }

RangePrices ==
  {NoneNum, 0, 1, 49, 50, 51, 999, 1000, 1001, 4999, 5000, 5001, 19999, 20000, 20001,
   199999, 200000, 200001, 1000000}

\* the sequences over S of length at most n
SeqsUpTo(S, n) == UNION {[1..k -> S] : k \in 0..n}

RECURSIVE ChoicesOf(_)
\* the sequences whose k-th element is drawn from sets[k]
ChoicesOf(sets) ==
  IF sets = <<>> THEN {<<>>}
  ELSE {<<h>> \o t : h \in Head(sets), t \in ChoicesOf(Tail(sets))}

\* the outcomes of fuzzywuzzy that resolve_card can meet: <<fzr, fzf>>
FuzzyOf(rarity, finish) ==
  (IF NeedsFuzzy(RARITY_MAPPINGS, rarity) THEN FuzzyOutcomes(RARITY_MAPPINGS) ELSE {NoFuzzy})
  \X (IF NeedsFuzzy(FINISH_MAPPINGS, finish) THEN FuzzyOutcomes(FINISH_MAPPINGS) ELSE {NoFuzzy})

\* the outcomes of fuzzywuzzy that resolve_ebay_listing can meet
EbayFuzzyOf(title, description) ==
  FuzzyOf(OrEmpty(_extract_rarity_from_text(title \o " " \o description)),
          OrEmpty(_extract_finish_from_text(title \o " " \o description)))

Init ==
  /\ pc = "idle"
  /\ op = "none"
  /\ args = NoneRec
  /\ filter_result = NoneRec
  /\ base_entity = NoneRec
  /\ result = NoneRec
  /\ raised = None

FilterListing ==
  /\ pc = "idle"
  /\ \E title \in Titles \cup MalformedTitles, description \in Descriptions, price \in Prices :
       /\ args' = [title |-> title, description |-> description, price |-> price]
       /\ result' = filter_listing(title, description, price)
  /\ op' = "filter_listing"
  /\ pc' = "done"
  /\ UNCHANGED <<filter_result, base_entity, raised>>

\* filter_listing(title): the description and the price take their defaults
FilterTitle ==
  /\ pc = "idle"
  /\ \E title \in DetectionTitles :
       /\ args' = [title |-> title, description |-> "", price |-> NoneNum]
       /\ result' = filter_listing(title, "", NoneNum)
  /\ op' = "filter_listing"
  /\ pc' = "done"
  /\ UNCHANGED <<filter_result, base_entity, raised>>

ResolveCard ==
  /\ pc = "idle"
  /\ \E a \in CardArgs :
       \E fz \in FuzzyOf(a.rarity, a.finish) :
         /\ args' = a
         /\ result' = resolve_card(a.name, a.set_info, a.number, a.rarity, a.finish, a.grade,
                                   fz[1], fz[2])
  /\ op' = "resolve_card"
  /\ pc' = "done"
  /\ UNCHANGED <<filter_result, base_entity, raised>>

BatchResolve ==
  /\ pc = "idle"
  /\ \E cards \in SeqsUpTo(BatchCards, MaxCards) :
       \E fz \in ChoicesOf([k \in 1..Len(cards) |-> FuzzyOf(cards[k].rarity, cards[k].finish)]) :
         /\ args' = [cards |-> cards]
         /\ result' = batch_resolve(cards, fz)
  /\ op' = "batch_resolve"
  /\ pc' = "done"
  /\ UNCHANGED <<filter_result, base_entity, raised>>

ResolveEbayListing ==
  /\ pc = "idle"
  /\ \E title \in EbayTitles, description \in EbayDescriptions, price \in Prices :
       \E fz \in EbayFuzzyOf(title, description) :
         \E locals \in {resolve_ebay_listing_locals(title, description, price, fz[1], fz[2])} :
            /\ args' = [title |-> title, description |-> description, price |-> price]
            /\ filter_result' = locals.filter_result
            /\ base_entity' = locals.base_entity
            /\ result' = locals.returned
  /\ op' = "resolve_ebay_listing"
  /\ pc' = "done"
  /\ UNCHANGED raised

\* resolve_ebay_listing(title, price=price): the description takes its default
ResolveEbayPriced ==
  /\ pc = "idle"
  /\ \E title \in PricedTitles, price \in RangePrices :
       \E fz \in EbayFuzzyOf(title, "") :
         \E locals \in {resolve_ebay_listing_locals(title, "", price, fz[1], fz[2])} :
            /\ args' = [title |-> title, description |-> "", price |-> price]
            /\ filter_result' = locals.filter_result
            /\ base_entity' = locals.base_entity
            /\ result' = locals.returned
  /\ op' = "resolve_ebay_listing"
  /\ pc' = "done"
  /\ UNCHANGED raised

BatchResolveListings ==
  /\ pc = "idle"
  /\ \E listings \in SeqsUpTo(BatchListings, MaxListings) :
       \E fz \in ChoicesOf([k \in 1..Len(listings) |->
                              EbayFuzzyOf(listings[k].title, listings[k].description)]) :
         \E outcome \in {batch_resolve_listings(listings, fz)} :
           /\ args' = [listings |-> listings]
           /\ result' = outcome.returned
           /\ raised' = outcome.raised
  /\ op' = "batch_resolve_listings"
  /\ pc' = "done"
  /\ UNCHANGED <<filter_result, base_entity>>

\* batch_resolve_listings on listing dicts that can miss a title or a description
BatchResolveFaulty ==
  /\ pc = "idle"
  /\ \E listings \in SeqsUpTo(FaultyListings, MaxListings) :
       \E fz \in ChoicesOf([k \in 1..Len(listings) |->
                              EbayFuzzyOf(Str(listings[k].title), Str(listings[k].description))]) :
         \E outcome \in {batch_resolve_listings(listings, fz)} :
           /\ args' = [listings |-> listings]
           /\ result' = outcome.returned
           /\ raised' = outcome.raised
  /\ op' = "batch_resolve_listings"
  /\ pc' = "done"
  /\ UNCHANGED <<filter_result, base_entity>>

BatchFilter ==
  /\ pc = "idle"
  /\ \E listings \in SeqsUpTo(BatchListings, MaxListings) :
       /\ args' = [listings |-> listings]
       /\ result' = batch_filter(listings)
  /\ op' = "batch_filter"
  /\ pc' = "done"
  /\ UNCHANGED <<filter_result, base_entity, raised>>

FindDuplicates ==
  /\ pc = "idle"
  /\ \E entities \in SeqsUpTo(DuplicateEntities, MaxEntities) :
       /\ args' = [entities |-> entities]
       /\ result' = find_duplicates(entities)
  /\ op' = "find_duplicates"
  /\ pc' = "done"
  /\ UNCHANGED <<filter_result, base_entity, raised>>

\* the caller takes the result; the objects are as they were constructed
Return ==
  /\ pc = "done"
  /\ pc' = "idle"
  /\ op' = "none"
  /\ args' = NoneRec
  /\ filter_result' = NoneRec
  /\ base_entity' = NoneRec
  /\ result' = NoneRec
  /\ raised' = None

Next ==
  \/ FilterListing
  \/ ResolveCard
  \/ BatchResolve
  \/ ResolveEbayListing
  \/ BatchResolveListings
  \/ BatchFilter
  \/ FindDuplicates
  \/ FilterTitle
  \/ ResolveEbayPriced
  \/ BatchResolveFaulty
  \/ Return

Spec == Init /\ [][Next]_vars

\* the calls of PokemonCardFilter alone
NextFilter == FilterListing \/ Return
SpecFilter == Init /\ [][NextFilter]_vars

\* the calls of EntityResolver alone
NextResolver == ResolveCard \/ BatchResolve \/ Return
SpecResolver == Init /\ [][NextResolver]_vars

\* the calls of FilteredEntityResolver alone
NextEbay == BatchResolveListings \/ ResolveEbayListing \/ Return
SpecEbay == Init /\ [][NextEbay]_vars

\* the three operations on one item
NextSingle == FilterListing \/ ResolveCard \/ ResolveEbayListing \/ Return
SpecSingle == Init /\ [][NextSingle]_vars

\* the three batch operations
NextBatch == BatchFilter \/ BatchResolve \/ BatchResolveListings \/ Return
SpecBatch == Init /\ [][NextBatch]_vars

\* the calls of find_duplicates alone
NextDuplicates == FindDuplicates \/ Return
SpecDuplicates == Init /\ [][NextDuplicates]_vars

\* the calls of filter_listing with a title alone
NextDetect == FilterTitle \/ Return
SpecDetect == Init /\ [][NextDetect]_vars

\* the calls of resolve_ebay_listing with a title and a price
NextPriced == ResolveEbayPriced \/ Return
SpecPriced == Init /\ [][NextPriced]_vars

\* the calls of batch_resolve_listings with listings that can be faulty
NextFaulty == BatchResolveFaulty \/ Return
SpecFaulty == Init /\ [][NextFaulty]_vars

(* ------------------------------------------------------------------ *)
(* Properties                                                          *)
(* ------------------------------------------------------------------ *)
ScenarioATitle == "Charizard VMAX 074/172 Brilliant Stars Secret Rare PSA 10 Mint"
SleevesTitle == "Pokemon Card Sleeves Ultra Pro 65ct Deck Protectors"

C2_ValidIff ==
  (pc = "done" /\ op = "filter_listing")
  => (result.is_valid <=> /\ result.quality # "JUNK"
                          /\ FGe(result.confidence_score, FloatLiterals.F0_7)
                          /\ result.card_type # "UNKNOWN")

\* a result that only its card type UNKNOWN makes invalid
C2_Witness ==
  /\ pc = "done" /\ op = "filter_listing"
  /\ result.quality # "JUNK"
  /\ FGe(result.confidence_score, FloatLiterals.F0_7)
  /\ result.card_type = "UNKNOWN"
  /\ ~result.is_valid

\* C3: when the filter reports card_type BULK_LOT, ACCESSORY, DIGITAL_CODE or
\* CUSTOM_PROXY, resolve_ebay_listing returns None and no entity of the
\* Entity Resolver exists, also when the filter marked the listing valid
C3_TypeGate ==
  (/\ pc = "done" /\ op = "resolve_ebay_listing"
   /\ filter_result.card_type \in {"BULK_LOT", "ACCESSORY", "DIGITAL_CODE", "CUSTOM_PROXY"})
  => (result = NoneRec /\ base_entity = NoneRec)

\* a bulk lot that the filter marked valid, with set and number detected
C3_Witness ==
  /\ pc = "done" /\ op = "resolve_ebay_listing"
  /\ filter_result.card_type = "BULK_LOT"
  /\ filter_result.is_valid
  /\ filter_result.detected_set # None /\ filter_result.detected_number # None
  /\ result = NoneRec

\* C4: every entity that resolve_ebay_listing returns and every element of the
\* list that batch_resolve_listings returns has confidence >= 85, a
\* filter_quality other than JUNK and a name_normalized that is neither empty
\* nor "Unknown"; resolve_ebay_listing returns None when the filter rejects
\* the listing or the Entity Resolver gave no entity
C4_ReturnedEntities ==
  /\ (pc = "done" /\ op = "resolve_ebay_listing")
     => /\ result # NoneRec
           => /\ result.confidence >= 85
              /\ result.filter_quality # "JUNK"
              /\ result.name_normalized \notin {"", "Unknown"}
        /\ (~filter_result.is_valid \/ base_entity = NoneRec) => result = NoneRec
  /\ (pc = "done" /\ op = "batch_resolve_listings")
     => \A k \in 1..Len(result) :
          /\ result[k] # NoneRec
          /\ result[k].confidence >= 85
          /\ result[k].filter_quality # "JUNK"
          /\ result[k].name_normalized \notin {"", "Unknown"}

\* a batch of two listings of which one resolves and one does not
C4_Witness ==
  /\ pc = "done" /\ op = "batch_resolve_listings"
  /\ Len(args.listings) = 2
  /\ Len(result) = 1

\* C5: the canonical_sku of every entity that resolve_card returns is the
\* underscore-join of set_code, card_number, name_normalized with "_" for " ",
\* and rarity, then the finish with "_" for " " exactly when the finish is not
\* "Regular", then "PSA<grade>" exactly when a grade was passed, 0 included
C5_SkuFormat ==
  (pc = "done" /\ op = "resolve_card" /\ result # NoneRec)
  => result.canonical_sku =
       Join("_", <<result.set_code, result.card_number,
                   ReplaceCh(result.name_normalized, " ", "_"), result.rarity>>
                 \o (IF result.finish # "Regular"
                     THEN <<ReplaceCh(result.finish, " ", "_")>> ELSE <<>>)
                 \o (IF args.grade # NoneNum
                     THEN <<"PSA" \o IntToStr(args.grade)>> ELSE <<>>))

\* C6: two resolve_card calls whose names differ only in letter case, all
\* other arguments being equal, both return None or return entities with the
\* same canonical_sku
C6_CaseInsensitiveSku ==
  (/\ pc = "done" /\ op = "batch_resolve"
   /\ Len(args.cards) = 2
   /\ Lower(args.cards[1].name) = Lower(args.cards[2].name)
   /\ [args.cards[1] EXCEPT !.name = ""] = [args.cards[2] EXCEPT !.name = ""])
  => \/ result[1] = NoneRec /\ result[2] = NoneRec
     \/ /\ result[1] # NoneRec /\ result[2] # NoneRec
        /\ result[1].canonical_sku = result[2].canonical_sku

\* C7: two entities that resolve_card returns with the same canonical_sku have
\* the same set_code, card_number, name_normalized, rarity, finish and grade
C7_SkuIdentifies ==
  (pc = "done" /\ op = "batch_resolve")
  => \A i, j \in 1..Len(result) :
       (/\ result[i] # NoneRec /\ result[j] # NoneRec
        /\ result[i].canonical_sku = result[j].canonical_sku)
       => /\ result[i].set_code = result[j].set_code
          /\ result[i].card_number = result[j].card_number
          /\ result[i].name_normalized = result[j].name_normalized
          /\ result[i].rarity = result[j].rarity
          /\ result[i].finish = result[j].finish
          /\ result[i].grade = result[j].grade

\* C8: resolve_card("Charizard ex", "Paldea Evolved PAL", "006/165",
\* "Secret Rare") returns an entity with set_code "PAL", card_number "006",
\* rarity "Secret Rare" and a canonical_sku that starts with
\* "PAL_006_Charizard_ex_Secret_Rare"; and a rarity that equals, ignoring
\* case, a key of RARITY_MAPPINGS is normalized to the value of that key
C8_RarityOwnValue ==
  (pc = "done" /\ op = "resolve_card")
  => /\ (/\ args.name = "Charizard ex" /\ args.set_info = "Paldea Evolved PAL"
         /\ args.number = "006/165" /\ args.rarity = "Secret Rare")
        => /\ result # NoneRec
           /\ result.set_code = "PAL"
           /\ result.card_number = "006"
           /\ result.rarity = "Secret Rare"
           /\ Len(result.canonical_sku) >= 32
           /\ Mid(result.canonical_sku, 1, 32) = "PAL_006_Charizard_ex_Secret_Rare"
     /\ \A k \in 1..Len(RARITY_MAPPINGS) :
          (result # NoneRec /\ Lower(args.rarity) = RARITY_MAPPINGS[k].key)
          => result.rarity = RARITY_MAPPINGS[k].value

C10_ProductTypes ==
  (pc = "done" /\ op = "filter_listing" /\ args.description = "")
  => /\ (args.title = SleevesTitle /\ args.price = 899)
        => (result.card_type = "ACCESSORY" /\ ~result.is_valid)
     /\ args.title \in {"Pokemon Random Card Lot 100 Cards Mixed",
                        "Pokemon Bulk Lot 500 Cards Assorted"}
        => result.card_type = "BULK_LOT"

\* C11: resolve_ebay_listing returns an entity for every listing that matches
\* no immediate-exclusion pattern and that the filter classifies SINGLE_CARD or
\* SEALED_PRODUCT, also when the title has no set name and no card number and
\* neither description nor price is given
C11_CardsResolve ==
  (/\ pc = "done" /\ op = "resolve_ebay_listing"
   /\ ExclusionReasons(Lower(args.title \o " " \o args.description), 1) = <<>>
   /\ filter_result.card_type \in {"SINGLE_CARD", "SEALED_PRODUCT"})
  => result # NoneRec

\* C12: resolve_card returns an entity only when the confidence of the raw
\* inputs is at least 85, the confidence being 100, less 20 without set_info,
\* less 15 without number, less 10 without rarity, less 10 for a name of fewer
\* than two tokens, less 15 for each of "?", "unknown", "error", "n/a" found in
\* the lower-cased "name set number rarity" text, and at least 0; the entity's
\* confidence is that value, and below 85 the result is None
C12_ConfidenceGate ==
  (pc = "done" /\ op = "resolve_card")
  => LET Absent(x) == x = None \/ x = ""
         text == Lower(args.name \o " " \o OrEmpty(args.set_info) \o " "
                       \o OrEmpty(args.number) \o " " \o OrEmpty(args.rarity))
         penalty == (IF Absent(args.set_info) THEN 20 ELSE 0)
                    + (IF Absent(args.number) THEN 15 ELSE 0)
                    + (IF Absent(args.rarity) THEN 10 ELSE 0)
                    + (IF Len(Split(args.name)) < 2 THEN 10 ELSE 0)
                    + 15 * Cardinality({w \in {"?", "unknown", "error", "n/a"} :
                                          Contains(text, w)})
         confidence == IF penalty > 100 THEN 0 ELSE 100 - penalty
     IN /\ result # NoneRec => (confidence >= 85 /\ result.confidence = confidence)
        /\ confidence < 85 => result = NoneRec

\* an entity returned at the threshold, for a name with a question mark
C12_Witness ==
  /\ pc = "done" /\ op = "resolve_card"
  /\ Contains(args.name, "?")
  /\ result # NoneRec
  /\ result.confidence = 85

\* C13: resolve_card returns None when the normalized name is empty, when
\* set_info is not given or yields no set code, or when number is not given or
\* has no digit; every entity it returns has a non-empty name_normalized,
\* set_code and card_number
C13_RequiredFields ==
  (pc = "done" /\ op = "resolve_card")
  => /\ (\/ _normalize_name(args.name) = ""
         \/ args.set_info \in {None, ""}
         \/ _extract_set_code(args.set_info) = None
         \/ args.number \in {None, ""}
         \/ ~\E i \in 1..Len(args.number) : At(args.number, i) \in DigitSet)
        => result = NoneRec
     /\ result # NoneRec
        => /\ result.name_normalized \notin {None, ""}
           /\ result.set_code \notin {None, ""}
           /\ result.card_number \notin {None, ""}

\* a call with a name, a set code and a rarity whose number has no digit
C13_Witness ==
  /\ pc = "done" /\ op = "resolve_card"
  /\ args.name = "Charizard ex" /\ args.set_info = "Paldea Evolved PAL"
  /\ args.number = "abc"
  /\ result = NoneRec

C15_ConfidenceBounds ==
  LET InUnit(x) == FGe(x, FZero) /\ FGe(FloatLiterals.F1, x)
      InPercent(n) == 0 <= n /\ n <= 100
  IN /\ (pc = "done" /\ op = "filter_listing") => InUnit(result.confidence_score)
     /\ (pc = "done" /\ op = "resolve_card" /\ result # NoneRec)
        => InPercent(result.confidence)
     /\ (pc = "done" /\ op = "resolve_ebay_listing")
        => /\ InUnit(filter_result.confidence_score)
           /\ base_entity # NoneRec => InPercent(base_entity.confidence)
           /\ result # NoneRec => /\ InPercent(result.confidence)
                                  /\ InUnit(result.filter_confidence)

\* a listing with type, set and number detected and every quality bonus
C15_Witness ==
  /\ pc = "done" /\ op = "filter_listing"
  /\ result.quality = "EXCELLENT"
  /\ result.detected_set # None /\ result.detected_number # None
  /\ FGe(result.confidence_score, FloatLiterals.F0_8)

\* C16: every FilterResult with is_valid=False has a non-empty reasons list,
\* whether an exclusion, a JUNK quality, a confidence below 0.7 or the card
\* type UNKNOWN made it invalid
C16_InvalidHasReasons ==
  (pc = "done" /\ op = "filter_listing" /\ ~result.is_valid)
  => result.reasons # <<>>

\* C17: filter_listing returns a FilterResult for an empty, a very long and a
\* symbol-only title, and for an empty title with an empty description the
\* result has is_valid=False and quality JUNK
C17_MalformedInput ==
  (pc = "done" /\ op = "filter_listing")
  => /\ result # NoneRec
     /\ (args.title = "" /\ args.description = "")
        => (~result.is_valid /\ result.quality = "JUNK")

\* C18: batch_filter and batch_resolve return a list as long as the input whose
\* i-th element is the result of filter_listing, or of resolve_card with None
\* kept, for the i-th input; batch_resolve_listings returns the non-None
\* results of resolve_ebay_listing on the inputs, in input order
C18_BatchOrder ==
  /\ (pc = "done" /\ op = "batch_filter")
     => /\ Len(result) = Len(args.listings)
        /\ \A k \in 1..Len(args.listings) :
              result[k] = filter_listing(args.listings[k].title, args.listings[k].description,
                                         args.listings[k].price)
  /\ (pc = "done" /\ op = "batch_resolve")
     => /\ Len(result) = Len(args.cards)
        /\ \A k \in 1..Len(args.cards) :
              result[k] = resolve_card(args.cards[k].name, args.cards[k].set,
                                       args.cards[k].number, args.cards[k].rarity,
                                       args.cards[k].finish, args.cards[k].grade,
                                       NoFuzzy, NoFuzzy)
  /\ (pc = "done" /\ op = "batch_resolve_listings")
     => result = SelectSeq([k \in 1..Len(args.listings) |->
                              resolve_ebay_listing(args.listings[k].title,
                                                   args.listings[k].description,
                                                   args.listings[k].price, NoFuzzy, NoFuzzy)],
                           LAMBDA e : e # NoneRec)

\* a batch of two listings in which only the second one resolves
C18_Witness ==
  /\ pc = "done" /\ op = "batch_resolve_listings"
  /\ Len(args.listings) = 2 /\ Len(result) = 1
  /\ result[1].source_title = args.listings[2].title
  /\ args.listings[1].title # args.listings[2].title

\* C19: find_duplicates returns, for every canonical_sku that two or more
\* input entities have, exactly one cluster, which holds the input entities
\* with that SKU in input order and nothing else; an entity whose SKU occurs
\* once is in no cluster
C19_DuplicateClusters ==
  (pc = "done" /\ op = "find_duplicates")
  => LET entities == args.entities
         WithSku(sku) == SelectSeq(entities, LAMBDA e : e.canonical_sku = sku)
         duplicated == {sku \in {entities[i].canonical_sku : i \in 1..Len(entities)} :
                          Len(WithSku(sku)) >= 2}
     IN /\ \A sku \in duplicated :
             Cardinality({k \in 1..Len(result) : result[k] = WithSku(sku)}) = 1
        /\ \A k \in 1..Len(result) : \E sku \in duplicated : result[k] = WithSku(sku)

\* two clusters, one of them of two entities that differ in their grade
C19_Witness ==
  /\ pc = "done" /\ op = "find_duplicates"
  /\ Len(result) = 2
  /\ \E k \in 1..2 : Len(result[k]) = 2 /\ result[k][1].grade # result[k][2].grade

\* C20: the quality of a listing that is not excluded is the tier of 0.5, plus
\* 0.1 for each positive category with a matching pattern, less 0.15 for each
\* negative category with a matching pattern, less 0.2 for a price under 1 or
\* 0.3 for a price over 10000, plus 0.1 for a text of more than 100 characters,
\* clamped to [0, 1]; the tiers are EXCELLENT from 0.8, GOOD from 0.65,
\* ACCEPTABLE from 0.5, POOR from 0.3, else JUNK
C20_CategoryScore ==
  (/\ pc = "done" /\ op = "filter_listing"
   /\ ExclusionReasons(Lower(args.title \o " " \o args.description), 1) = <<>>)
  => LET text == Lower(args.title \o " " \o args.description)
         Matched(table) ==
           Cardinality({i \in 1..Len(table) :
                          \E j \in 1..Len(table[i].patterns) : FoundI(table[i].patterns[j], text)})
         RECURSIVE Times(_, _, _)
         Times(score, delta, n) ==
           IF n = 0 THEN score ELSE Times(FAdd(score, delta), delta, n - 1)
         matched == Times(Times(FloatLiterals.F0_5, FloatLiterals.F0_1, Matched(quality_positive)),
                          FNeg(FloatLiterals.F0_15), Matched(quality_negative))
         priced == IF args.price # NoneNum /\ args.price < 100
                   THEN FAdd(matched, FNeg(FloatLiterals.F0_2))
                   ELSE IF args.price > 1000000
                   THEN FAdd(matched, FNeg(FloatLiterals.F0_3))
                   ELSE matched
         long == IF Len(text) > 100 THEN FAdd(priced, FloatLiterals.F0_1) ELSE priced
         score == FMax(FZero, FMin(FloatLiterals.F1, long))
     IN result.quality = IF FGe(score, FloatLiterals.F0_8) THEN "EXCELLENT"
                         ELSE IF FGe(score, FloatLiterals.F0_65) THEN "GOOD"
                         ELSE IF FGe(score, FloatLiterals.F0_5) THEN "ACCEPTABLE"
                         ELSE IF FGe(score, FloatLiterals.F0_3) THEN "POOR"
                         ELSE "JUNK"

\* the categories of _detect_card_type that have a pattern found in the text,
\* by their place in the order DIGITAL_CODE, SEALED_PRODUCT, BULK_LOT,
\* ACCESSORY, CUSTOM_PROXY, SINGLE_CARD
C21_Categories ==
  <<[type |-> "DIGITAL_CODE", patterns |-> <<digital_pattern>>],
    [type |-> "SEALED_PRODUCT", patterns |-> sealed_patterns],
    [type |-> "BULK_LOT", patterns |-> bulk_patterns],
    [type |-> "ACCESSORY", patterns |-> accessory_patterns],
    [type |-> "CUSTOM_PROXY", patterns |-> custom_patterns],
    [type |-> "SINGLE_CARD", patterns |-> single_patterns]>>

C21_Matching(text) ==
  {i \in 1..Len(C21_Categories) :
     \E j \in 1..Len(C21_Categories[i].patterns) :
       Search(C21_Categories[i].patterns[j], text).found}

\* C21 as stated: the card_type of a listing that hits no immediate exclusion
\* is the first category, in the order DIGITAL_CODE, SEALED_PRODUCT, BULK_LOT,
\* ACCESSORY, CUSTOM_PROXY, SINGLE_CARD, with a pattern found in the text, and
\* UNKNOWN when there is none; so a text with accessory and single-card
\* vocabulary is ACCESSORY and never SINGLE_CARD, and a text with
\* sealed-product vocabulary and no digital-code vocabulary is SEALED_PRODUCT
C21_AccessoryOverSingle ==
  (/\ pc = "done" /\ op = "filter_listing"
   /\ ExclusionReasons(Lower(args.title \o " " \o args.description), 1) = <<>>)
  => \A matching \in {C21_Matching(Lower(args.title \o " " \o args.description))} :
       /\ matching = {} => result.card_type = "UNKNOWN"
       /\ matching # {} => result.card_type = C21_Categories[SetMin(matching)].type
       /\ {4, 6} \subseteq matching => result.card_type = "ACCESSORY"
       /\ (2 \in matching /\ 1 \notin matching) => result.card_type = "SEALED_PRODUCT"

\* C21 as amended: the card_type of a listing that hits no immediate exclusion
\* is the first category in that order with a pattern found in the text, and
\* UNKNOWN when there is none; so a text with accessory and single-card
\* vocabulary is never SINGLE_CARD, and is ACCESSORY when it has no
\* digital-code, sealed-product or bulk-lot vocabulary, and a text with
\* sealed-product vocabulary and no digital-code vocabulary is SEALED_PRODUCT
C21_FirstCategory ==
  (/\ pc = "done" /\ op = "filter_listing"
   /\ ExclusionReasons(Lower(args.title \o " " \o args.description), 1) = <<>>)
  => \A matching \in {C21_Matching(Lower(args.title \o " " \o args.description))} :
       /\ matching = {} => result.card_type = "UNKNOWN"
       /\ matching # {} => result.card_type = C21_Categories[SetMin(matching)].type
       /\ {4, 6} \subseteq matching =>
            /\ result.card_type # "SINGLE_CARD"
            /\ matching \cap {1, 2, 3} = {} => result.card_type = "ACCESSORY"
       /\ (2 \in matching /\ 1 \notin matching) => result.card_type = "SEALED_PRODUCT"

\* a listing with accessory and single-card vocabulary was classified ACCESSORY
C21_Witness ==
  /\ pc = "done" /\ op = "filter_listing"
  /\ ExclusionReasons(Lower(args.title \o " " \o args.description), 1) = <<>>
  /\ result.card_type = "ACCESSORY"
  /\ {4, 6} \subseteq C21_Matching(Lower(args.title \o " " \o args.description))

\* C22: a title that hits no immediate exclusion and names one alias of the
\* set-name table gets the code under which the alias is listed as its
\* detected_set, and a title that names two aliases gets the code of the
\* left one
C22_AliasOwnCode ==
  (/\ pc = "done" /\ op = "filter_listing"
   /\ ExclusionReasons(Lower(args.title \o " " \o args.description), 1) = <<>>)
  => \A i \in 1..Len(modern_sets) : \A j \in 1..Len(modern_sets[i].names) :
       /\ args.title = "Charizard " \o modern_sets[i].names[j]
            => result.detected_set = modern_sets[i].code
       /\ \A b \in {"Jungle", "Fossil", "TR", "Base Set", "151"} :
            (/\ b # modern_sets[i].names[j]
             /\ args.title = "Charizard " \o modern_sets[i].names[j] \o " " \o b)
            => result.detected_set = modern_sets[i].code

\* C23: the detected_condition is the condition that the phrase of the
\* listing names: near_mint for "near mint", lightly_played for "lightly
\* played", heavily_played for "heavily played", mint for "mint" without
\* "near" before it, and damaged for the listing "Damaged Pokemon Card As Is"
C23_ConditionPhrase ==
  (pc = "done" /\ op = "filter_listing")
  => \A text \in {Lower(args.title \o " " \o args.description)} :
       /\ \A c \in {<<"near mint", "near_mint">>, <<"lightly played", "lightly_played">>,
                    <<"heavily played", "heavily_played">>} :
            Contains(text, c[1]) => result.detected_condition = c[2]
       /\ (/\ Found(Cat(<<WB, Lit("mint"), WB>>), text)
           /\ ~Contains(text, "near mint")
           /\ ~Contains(text, "played"))
          => result.detected_condition = "mint"
       /\ args.title = "Damaged Pokemon Card As Is" => result.detected_condition = "damaged"

\* C24: a listing that hits no immediate exclusion and states a grade (PSA 1
\* to 10; BGS, Beckett or CGC 6 to 10 and their half grades) has the integer
\* part of the grade as its detected_grade, a half grade cut and not rounded;
\* of two grades the one of the first company in the order PSA, BGS, CGC
\* counts; a detected_grade is an integer from 1 to 10 or absent
C24_GradeTruncated ==
  (/\ pc = "done" /\ op = "filter_listing"
   /\ ExclusionReasons(Lower(args.title \o " " \o args.description), 1) = <<>>)
  => /\ \A n \in GradeNotations :
          args.title = "Pikachu " \o n[1] \o " " \o n[2][1] \o " Graded"
          => result.detected_grade = n[2][2]
     /\ args.title = "Pikachu BGS 9.5 Beckett" => result.detected_grade = 9
     /\ args.title = "Umbreon CGC 8.5 Graded" => result.detected_grade = 8
     /\ args.title = "Pikachu BGS 9.5 PSA 10" => result.detected_grade = 10
     /\ args.title = "Pikachu CGC 8.5 BGS 9.5" => result.detected_grade = 9
     /\ result.detected_grade \in (1..10) \cup {NoneNum}
     /\ (\A co \in {"psa", "bgs", "beckett", "cgc"} :
           ~Contains(Lower(args.title \o " " \o args.description), co))
        => result.detected_grade = NoneNum

\* a half grade was detected
C24_Witness ==
  /\ pc = "done" /\ op = "filter_listing"
  /\ args.title = "Pikachu BGS 9.5 Graded"
  /\ result.reasons = <<>>
  /\ result.detected_grade = 9

\* C25: an entity that resolve_ebay_listing returns has the market_tier
\* premium, mid or budget, and premium when the title or the description
\* states Secret Rare, Rainbow Rare, Gold Rare, Alt Art or Full Art
C25_PremiumTier ==
  (pc = "done" /\ op = "resolve_ebay_listing" /\ result # NoneRec)
  => /\ result.market_tier \in {"premium", "mid", "budget"}
     /\ (\E r \in {"secret rare", "rainbow rare", "gold rare", "alt art", "full art"} :
           Contains(Lower(args.title \o " " \o args.description), r))
        => result.market_tier = "premium"

\* C26: the price_estimate of a returned entity is None exactly when no price
\* was given; else it is 1.0 for a price in the range of the entity's tier
\* (premium 50 to 2000, mid 10 to 200, budget 0.5 to 50, ends included), 0.3
\* for a price under the range, 0 included, and 0.6 for a price over it
C26_PriceEstimate ==
  (pc = "done" /\ op = "resolve_ebay_listing" /\ result # NoneRec)
  => \A range \in {IF result.market_tier = "premium" THEN <<5000, 200000>>
                   ELSE IF result.market_tier = "mid" THEN <<1000, 20000>>
                   ELSE <<50, 5000>>} :
       /\ result.price_estimate = NoneRec <=> args.price = NoneNum
       /\ result.market_tier \in {"premium", "mid", "budget"}
       /\ args.price # NoneNum =>
            result.price_estimate =
              IF args.price \in range[1]..range[2] THEN Dec(1, 1)
              ELSE IF args.price < range[1] THEN Dec(3, 10)
              ELSE Dec(6, 10)

\* an entity was returned with a price at the upper end of the range of its tier
C26_Witness ==
  /\ pc = "done" /\ op = "resolve_ebay_listing" /\ result # NoneRec
  /\ result.market_tier = "budget"
  /\ args.price = 5000
  /\ result.price_estimate = FloatLiterals.F1

\* C27: the set code that the filter detected in a listing that
\* resolve_ebay_listing hands to resolve_card is a set code to the resolver:
\* _extract_set_code returns it unchanged, and a base entity has it as its
\* set_code
C27_SetCodeAccepted ==
  (/\ pc = "done" /\ op = "resolve_ebay_listing"
   /\ filter_result.is_valid /\ filter_result.quality # "JUNK"
   /\ filter_result.card_type \in {"SINGLE_CARD", "SEALED_PRODUCT"}
   /\ filter_result.detected_set # None)
  => /\ _extract_set_code(filter_result.detected_set) = filter_result.detected_set
     /\ base_entity # NoneRec => base_entity.set_code = filter_result.detected_set

\* C28: an entity that resolve_card returns was given a set and a number, and
\* its confidence is 100, 90 or 85; no entity is returned for a call without
\* rarity whose name is one word, nor for a call with a suspicious pattern and
\* another penalty
C28_ReturnedConfidence ==
  (pc = "done" /\ op = "resolve_card")
  => \A suspicious \in {\E p \in {"?", "unknown", "error", "n/a"} :
                          Contains(Lower(args.name \o " " \o OrEmpty(args.set_info) \o " "
                                         \o OrEmpty(args.number) \o " " \o OrEmpty(args.rarity)), p)} :
       /\ result # NoneRec =>
            /\ result.confidence \in {100, 90, 85}
            /\ args.set_info \notin {None, ""}
            /\ args.number \notin {None, ""}
       /\ (args.rarity \in {None, ""} /\ Len(Split(args.name)) < 2) => result = NoneRec
       /\ (/\ suspicious
           /\ \/ args.set_info \in {None, ""}
              \/ args.number \in {None, ""}
              \/ args.rarity \in {None, ""}
              \/ Len(Split(args.name)) < 2)
          => result = NoneRec

\* an entity was returned with one penalty, for the missing rarity
C28_Witness ==
  /\ pc = "done" /\ op = "resolve_card" /\ result # NoneRec
  /\ args.rarity = None
  /\ result.confidence = 90

\* C29: resolve_card does not reject at the language gate a call whose name
\* and set_info hold no CJK character and no non-English keyword as a whole
\* word: when the call has a name, a set code and a number and its confidence
\* is 85 or more, an entity is returned
C29_EnglishPasses ==
  (/\ pc = "done" /\ op = "resolve_card"
   /\ ~Contains(args.name \o " " \o OrEmpty(args.set_info), "~")
   /\ \A k \in 1..Len(non_english_indicators) :
        ~FoundI(Cat(<<WB, Lit(non_english_indicators[k]), WB>>),
                args.name \o " " \o OrEmpty(args.set_info))
   /\ Truthy(_normalize_name(args.name))
   /\ Truthy(args.set_info) /\ Truthy(_extract_set_code(args.set_info))
   /\ Truthy(args.number) /\ Truthy(_normalize_number(args.number))
   /\ _calculate_entity_confidence(args.name, args.set_info, args.number, args.rarity) >= 85)
  => result # NoneRec

\* C30: no exception leaves batch_resolve_listings: it returns the entities of
\* the listings whose resolution raises nothing and gives an entity, in the
\* order of the listings; a listing whose resolution raises, as one whose
\* title is None, is left out
C30_BatchNeverRaises ==
  (pc = "done" /\ op = "batch_resolve_listings")
  => /\ raised = None
     /\ result = SelectSeq(
          [k \in 1..Len(args.listings) |->
             IF resolve_ebay_listing_raised(args.listings[k].title, args.listings[k].description,
                                            args.listings[k].price) # None
             THEN NoneRec
             ELSE resolve_ebay_listing(args.listings[k].title, Str(args.listings[k].description),
                                       args.listings[k].price, NoFuzzy, NoFuzzy)],
          LAMBDA e : e # NoneRec)

====
